---- MODULE Spec2Model ----
(***************************************************************************)
(* A model of the regional routing and data aggregation layer of the       *)
(* OPGL data service: services.RiotService (makeRequest, buildURL, the two *)
(* routing tables, GetSummonerByRiotID, GetSummonerByPUUID,                *)
(* GetMatchHistory, GetMatchDetails).                                      *)
(*                                                                         *)
(* Go values are modelled as follows.                                      *)
(*   error      a sequence of message pieces, outermost wrap first; the    *)
(*              nil error is the empty sequence.  fmt.Errorf("p: %w", e)   *)
(*              puts the piece "p: " in front of e.  Text that comes from  *)
(*              outside (a status code, a response body) is spelled one    *)
(*              character per piece.                                       *)
(*   JSON       a decoded document is a tagged record (JObj, JArr, ...);   *)
(*              a body that is not JSON is JInvalid.                       *)
(*   struct     a record with the Go field names.                          *)
(*   pointer    Nil, or the record it points to.                           *)
(***************************************************************************)
EXTENDS Integers, Sequences, FiniteSets, TLC

\* ------------------------------------------------------------------ bounds

\* Longest match-ID listing the provider returns.
MaxK == 2
\* Longest plain-text response body (in characters).
MaxBodyLen == 1
\* Most participants in a raw match payload.
MaxParticipants == 1
\* The most participants in a payload answered to a direct GetMatchDetails call.
MaxRoster == 2

\* ------------------------------------------------------------ Go helpers

\* A pointer or a slice: nil, or a reference to a value.
Nil == [nil |-> TRUE]
Ref(x) == [nil |-> FALSE, v |-> x]
NoErr == <<>>

\* fmt.Errorf(prefix + "%w", err)
Wrap(prefix, err) == <<prefix>> \o err

Digits == <<"0", "1", "2", "3", "4", "5", "6", "7", "8", "9">>

\* The %d verb: the decimal spelling of a non-negative integer.
RECURSIVE Itoa(_)
Itoa(n) == IF n < 10 THEN <<Digits[n + 1]>>
           ELSE Itoa(n \div 10) \o <<Digits[(n % 10) + 1]>>

\* -------------------------------------------------------------- JSON docs

JInvalid == [t |-> "invalid"]
JNull == [t |-> "null"]
JStr(s) == [t |-> "str", s |-> s]
JNum(n) == [t |-> "num", n |-> n]
JBool(b) == [t |-> "bool", b |-> b]
JArr(a) == [t |-> "arr", a |-> a]
JObj(o) == [t |-> "obj", o |-> o]
EmptyObj == JObj(<<>>)

\* The member of an object, JNull when the key is absent (encoding/json leaves
\* the field of the target untouched in both cases).
Member(doc, key) == IF key \in DOMAIN doc.o THEN doc.o[key] ELSE JNull

ZeroOf(kind) == CASE kind = "str" -> ""
                  [] kind = "int" -> 0
                  [] kind = "bool" -> FALSE

\* json.Unmarshal of one value into a string, int or bool field holding its
\* zero value: a value of the right type is stored, null is skipped, any other
\* value is a type error and leaves the field as it was.
DecodeScalar(kind, v) ==
    IF v.t = "null" THEN [ok |-> TRUE, val |-> ZeroOf(kind)]
    ELSE IF kind = "str" /\ v.t = "str" THEN [ok |-> TRUE, val |-> v.s]
    ELSE IF kind = "int" /\ v.t = "num" THEN [ok |-> TRUE, val |-> v.n]
    ELSE IF kind = "bool" /\ v.t = "bool" THEN [ok |-> TRUE, val |-> v.b]
    ELSE [ok |-> FALSE, val |-> ZeroOf(kind)]

\* json.Unmarshal of a value into a struct of scalar fields.  fields maps each
\* JSON key (the struct tag) to the Go field name and its kind.  Unknown keys
\* are ignored; a type error in one field does not stop the others.
DecodeStruct(fields, doc) ==
    LET names == {fields[k].go : k \in DOMAIN fields}
        key(g) == CHOOSE k \in DOMAIN fields : fields[k].go = g
        zero == [g \in names |-> ZeroOf(fields[key(g)].kind)]
    IN  IF doc.t = "null" THEN [ok |-> TRUE, val |-> zero]
        ELSE IF doc.t # "obj" THEN [ok |-> FALSE, val |-> zero]
        ELSE LET one(g) == DecodeScalar(fields[key(g)].kind, Member(doc, key(g)))
             IN  [ok |-> \A g \in names : one(g).ok,
                  val |-> [g \in names |-> one(g).val]]

\* ---------------------------------------------------- decoding targets

\* var accountInfo struct { PUUID, GameName, TagLine }
AccountFields ==
    [puuid |-> [go |-> "PUUID", kind |-> "str"],
     gameName |-> [go |-> "GameName", kind |-> "str"],
     tagLine |-> [go |-> "TagLine", kind |-> "str"]]

\* models.Summoner
SummonerFields ==
    [id |-> [go |-> "ID", kind |-> "str"],
     accountId |-> [go |-> "AccountID", kind |-> "str"],
     puuid |-> [go |-> "PUUID", kind |-> "str"],
     name |-> [go |-> "Name", kind |-> "str"],
     profileIconId |-> [go |-> "ProfileIconID", kind |-> "int"],
     summonerLevel |-> [go |-> "SummonerLevel", kind |-> "int"]]

\* rawMatch.Metadata
MetadataFields == [matchId |-> [go |-> "MatchID", kind |-> "str"]]

\* rawMatch.Info without its Participants
InfoFields ==
    [gameCreation |-> [go |-> "GameCreation", kind |-> "int"],
     gameDuration |-> [go |-> "GameDuration", kind |-> "int"],
     gameMode |-> [go |-> "GameMode", kind |-> "str"],
     gameType |-> [go |-> "GameType", kind |-> "str"]]

\* one element of rawMatch.Info.Participants; models.Participant has the same
\* fields under the same names
ParticipantFields ==
    [puuid |-> [go |-> "PUUID", kind |-> "str"],
     summonerName |-> [go |-> "SummonerName", kind |-> "str"],
     championId |-> [go |-> "ChampionID", kind |-> "int"],
     championName |-> [go |-> "ChampionName", kind |-> "str"],
     kills |-> [go |-> "Kills", kind |-> "int"],
     deaths |-> [go |-> "Deaths", kind |-> "int"],
     assists |-> [go |-> "Assists", kind |-> "int"],
     goldEarned |-> [go |-> "GoldEarned", kind |-> "int"],
     totalDamageDealtToChampions |-> [go |-> "TotalDamageDealtToChampions", kind |-> "int"],
     totalDamageTaken |-> [go |-> "TotalDamageTaken", kind |-> "int"],
     visionScore |-> [go |-> "VisionScore", kind |-> "int"],
     totalMinionsKilled |-> [go |-> "TotalMinionsKilled", kind |-> "int"],
     win |-> [go |-> "Win", kind |-> "bool"],
     teamPosition |-> [go |-> "TeamPosition", kind |-> "str"]]

\* The elements of a JSON array, none for any other document.
Elements(doc) == IF doc.t = "arr" THEN doc.a ELSE <<>>

\* json.Unmarshal into a slice: null leaves it nil, an array fills a fresh
\* slice element by element, anything else is a type error.  elems holds what
\* decoding each element of the array gave.
DecodeSlice(doc, elems) ==
    IF doc.t = "null" THEN [ok |-> TRUE, val |-> Nil]
    ELSE IF doc.t # "arr" THEN [ok |-> FALSE, val |-> Nil]
    ELSE [ok |-> \A i \in 1..Len(elems) : elems[i].ok,
          val |-> Ref([i \in 1..Len(elems) |-> elems[i].val])]

\* var matchIDs []string
DecodeMatchIDs(doc) ==
    DecodeSlice(doc, [i \in 1..Len(Elements(doc)) |-> DecodeScalar("str", Elements(doc)[i])])

\* var rawMatch struct { Metadata struct{...}; Info struct{...; Participants []struct{...}} }
DecodeRawMatch(doc) ==
    LET sub(key) == IF doc.t = "obj" THEN Member(doc, key) ELSE JNull
        meta == DecodeStruct(MetadataFields, sub("metadata"))
        info == DecodeStruct(InfoFields, sub("info"))
        list == IF sub("info").t = "obj" THEN Member(sub("info"), "participants")
                ELSE JNull
        parts == DecodeSlice(list, [i \in 1..Len(Elements(list)) |->
                                       DecodeStruct(ParticipantFields, Elements(list)[i])])
    IN  [ok |-> doc.t \in {"null", "obj"} /\ meta.ok /\ info.ok /\ parts.ok,
         val |-> [Metadata |-> meta.val,
                  Info |-> [GameCreation |-> info.val.GameCreation,
                            GameDuration |-> info.val.GameDuration,
                            GameMode |-> info.val.GameMode,
                            GameType |-> info.val.GameType,
                            Participants |-> parts.val]]]

\* json.Unmarshal of a parsed document into the zero value of the shape the
\* caller declared.
Unmarshal(shape, doc) ==
    CASE shape = "account" -> DecodeStruct(AccountFields, doc)
      [] shape = "summoner" -> DecodeStruct(SummonerFields, doc)
      [] shape = "matchIDs" -> DecodeMatchIDs(doc)
      [] shape = "rawMatch" -> DecodeRawMatch(doc)

\* What Decode returns, r being what unmarshalling the document gave: a body
\* that is not JSON is a syntax error, a value of the wrong type a type error.
Decoded(doc, r) ==
    [err |-> IF doc.t = "invalid" THEN <<"syntax">>
             ELSE IF r.ok THEN NoErr ELSE <<"type">>,
     val |-> r.val]

\* json.NewDecoder(body).Decode(target).  A body that is not JSON fails to
\* parse and leaves the target as declared.
Decode(shape, doc) ==
    Decoded(doc, Unmarshal(shape, IF doc.t = "invalid" THEN JNull ELSE doc))

\* The value of a declared, not yet decoded target.
Zero(shape) == Unmarshal(shape, JNull).val

\* -------------------------------------------------------------- RiotService

\* The Timeout of the client NewRiotService builds, in seconds.
RequestTimeout == 10
\* http.StatusOK
StatusOK == 200

NewRiotService(apiKey) ==
    [apiKey |-> apiKey,
     httpClient |-> [Timeout |-> RequestTimeout],
     baseURLOverride |-> ""]

NewRiotServiceWithBaseURL(apiKey, baseURL, httpClient) ==
    [apiKey |-> apiKey,
     httpClient |-> httpClient,
     baseURLOverride |-> baseURL]

regionalRouting ==
    [na |-> "na1.api.riotgames.com",
     euw |-> "euw1.api.riotgames.com",
     eune |-> "eun1.api.riotgames.com",
     kr |-> "kr.api.riotgames.com",
     br |-> "br1.api.riotgames.com",
     jp |-> "jp1.api.riotgames.com",
     ru |-> "ru.api.riotgames.com",
     oce |-> "oc1.api.riotgames.com",
     tr |-> "tr1.api.riotgames.com",
     lan |-> "la1.api.riotgames.com",
     las |-> "la2.api.riotgames.com"]

\* getRegionalURL answering an unknown region with no host.
getRegionalURL_NoFallback(region) ==
    IF region \in DOMAIN regionalRouting THEN regionalRouting[region]
    ELSE ""

getRegionalURL(region) ==
    IF region \in DOMAIN regionalRouting THEN regionalRouting[region]
    ELSE regionalRouting["na"]

continentalRouting ==
    [na |-> "americas.api.riotgames.com",
     br |-> "americas.api.riotgames.com",
     lan |-> "americas.api.riotgames.com",
     las |-> "americas.api.riotgames.com",
     euw |-> "europe.api.riotgames.com",
     eune |-> "europe.api.riotgames.com",
     tr |-> "europe.api.riotgames.com",
     ru |-> "europe.api.riotgames.com",
     kr |-> "asia.api.riotgames.com",
     jp |-> "asia.api.riotgames.com",
     oce |-> "sea.api.riotgames.com"]

\* getMatchRegionalURL answering with the platform host of the region.
getMatchRegionalURL_Platform(region) ==
    IF region \in DOMAIN continentalRouting THEN regionalRouting[region]
    ELSE continentalRouting["na"]

getMatchRegionalURL(region) ==
    IF region \in DOMAIN continentalRouting THEN continentalRouting[region]
    ELSE continentalRouting["na"]

\* A URL is the sequence of the pieces it was formatted from; path is the
\* formatted path.
buildURL(s, baseURL, path) ==
    IF s.baseURLOverride # "" THEN <<s.baseURLOverride>> \o path
    ELSE <<"https://", baseURL>> \o path

\* A piece that url.Parse rejects (an invalid percent escape), which makes
\* http.NewRequest fail.
BadEscape == "%zz"
ValidURL(url) == \A i \in 1..Len(url) : url[i] # BadEscape

\* StatusError with the code and the body run together.
StatusError_NoSeparator(status, body) ==
    <<"API request failed with status ">> \o Itoa(status) \o body

\* fmt.Errorf("API request failed with status %d: %s", StatusCode, string(body))
StatusError(status, body) ==
    <<"API request failed with status ">> \o Itoa(status) \o <<":", " ">> \o body

\* The end of makeRequest, decoded being what Decode returned: the decode
\* error wrapped, or nil.
makeRequest_Decoded(request, decoded) ==
    [err |-> IF decoded.err # NoErr
             THEN Wrap("failed to decode response: ", decoded.err)
             ELSE NoErr,
     target |-> decoded.val, sent |-> <<request>>]

\* makeRequest trying a second time when httpClient.Do gets no response.
makeRequest_Retry(s, url, shape, resp) ==
    LET request == [method |-> "GET", url |-> url,
                    header |-> [XRiotToken |-> s.apiKey]]
    IN  IF ~ValidURL(url)
        THEN [err |-> Wrap("failed to create request: ", <<"parse">>),
              target |-> Zero(shape), sent |-> <<>>]
        ELSE IF ~resp.got
        THEN [err |-> Wrap("failed to execute request: ", <<resp.cause>>),
              target |-> Zero(shape), sent |-> <<request, request>>]
        ELSE IF resp.status # StatusOK
        THEN [err |-> StatusError(resp.status, resp.body.text),
              target |-> Zero(shape), sent |-> <<request>>]
        ELSE makeRequest_Decoded(request, Decode(shape, resp.body.doc))

\* makeRequest decoding the body before it looks at the status.
makeRequest_DecodeFirst(s, url, shape, resp) ==
    LET request == [method |-> "GET", url |-> url,
                    header |-> [XRiotToken |-> s.apiKey]]
    IN  IF ~ValidURL(url)
        THEN [err |-> Wrap("failed to create request: ", <<"parse">>),
              target |-> Zero(shape), sent |-> <<>>]
        ELSE IF ~resp.got
        THEN [err |-> Wrap("failed to execute request: ", <<resp.cause>>),
              target |-> Zero(shape), sent |-> <<request>>]
        ELSE LET decoded == Decode(shape, resp.body.doc)
             IN  IF decoded.err # NoErr
                 THEN [err |-> Wrap("failed to decode response: ", decoded.err),
                       target |-> decoded.val, sent |-> <<request>>]
                 ELSE IF resp.status # StatusOK
                 THEN [err |-> StatusError(resp.status, resp.body.text),
                       target |-> decoded.val, sent |-> <<request>>]
                 ELSE [err |-> NoErr, target |-> decoded.val, sent |-> <<request>>]

\* makeRequest passing the key in the query of the URL, not in the header.
makeRequest_QueryKey(s, url, shape, resp) ==
    LET request == [method |-> "GET", url |-> url \o <<"?api_key=", s.apiKey>>,
                    header |-> [XRiotToken |-> ""]]
    IN  IF ~ValidURL(url)
        THEN [err |-> Wrap("failed to create request: ", <<"parse">>),
              target |-> Zero(shape), sent |-> <<>>]
        ELSE IF ~resp.got
        THEN [err |-> Wrap("failed to execute request: ", <<resp.cause>>),
              target |-> Zero(shape), sent |-> <<request>>]
        ELSE IF resp.status # StatusOK
        THEN [err |-> StatusError(resp.status, resp.body.text),
              target |-> Zero(shape), sent |-> <<request>>]
        ELSE makeRequest_Decoded(request, Decode(shape, resp.body.doc))

\* makeRequest(url, &target), target being a declared value of the given
\* shape, answered by the upstream with resp: no response at all
\* (resp.got = FALSE), or a status and a body.  sent holds the request handed
\* to httpClient.Do, if any.
makeRequest(s, url, shape, resp) ==
    LET request == [method |-> "GET", url |-> url,
                    header |-> [XRiotToken |-> s.apiKey]]
    IN  IF ~ValidURL(url)
        THEN [err |-> Wrap("failed to create request: ", <<"parse">>),
              target |-> Zero(shape), sent |-> <<>>]
        ELSE IF ~resp.got
        THEN [err |-> Wrap("failed to execute request: ", <<resp.cause>>),
              target |-> Zero(shape), sent |-> <<request>>]
        ELSE IF resp.status # StatusOK
        THEN [err |-> StatusError(resp.status, resp.body.text),
              target |-> Zero(shape), sent |-> <<request>>]
        ELSE makeRequest_Decoded(request, Decode(shape, resp.body.doc))

\* Go's integer division and remainder truncate toward zero.
GoDiv(a, b) == IF a >= 0 THEN a \div b ELSE -((-a) \div b)
GoMod(a, b) == a - b * GoDiv(a, b)

\* UnixMilli keeping the whole seconds only.
UnixMilli_WholeSeconds(msec) == [sec |-> GoDiv(msec, 1000), nsec |-> 0]

\* time.UnixMilli(msec) = time.Unix(msec/1e3, (msec%1e3)*1e6), as the instant
\* [sec, nsec] with 0 <= nsec < 1e9.
UnixMilli(msec) ==
    LET sec == GoDiv(msec, 1000)
        nsec == GoMod(msec, 1000) * 1000000
    IN  IF nsec < 0 THEN [sec |-> sec - 1, nsec |-> nsec + 1000000000]
        ELSE [sec |-> sec, nsec |-> nsec]

\* len of a slice
GoLen(slice) == IF slice = Nil THEN 0 ELSE Len(slice.v)

\* ConvertMatch filling Participants from the last raw participant to the first.
ConvertMatch_Reversed(rawMatch) ==
    [MatchID |-> rawMatch.Metadata.MatchID,
     GameCreation |-> UnixMilli(rawMatch.Info.GameCreation),
     GameDuration |-> rawMatch.Info.GameDuration,
     GameMode |-> rawMatch.Info.GameMode,
     GameType |-> rawMatch.Info.GameType,
     Participants |->
        Ref([i \in 1..GoLen(rawMatch.Info.Participants) |->
                LET participant == rawMatch.Info.Participants.v[
                        GoLen(rawMatch.Info.Participants) + 1 - i]
                IN  [PUUID |-> participant.PUUID,
                     SummonerName |-> participant.SummonerName,
                     ChampionID |-> participant.ChampionID,
                     ChampionName |-> participant.ChampionName,
                     Kills |-> participant.Kills,
                     Deaths |-> participant.Deaths,
                     Assists |-> participant.Assists,
                     GoldEarned |-> participant.GoldEarned,
                     TotalDamageDealtToChampions |-> participant.TotalDamageDealtToChampions,
                     TotalDamageTaken |-> participant.TotalDamageTaken,
                     VisionScore |-> participant.VisionScore,
                     TotalMinionsKilled |-> participant.TotalMinionsKilled,
                     Win |-> participant.Win,
                     TeamPosition |-> participant.TeamPosition]])]

\* The conversion of rawMatch into models.Match
ConvertMatch(rawMatch) ==
    [MatchID |-> rawMatch.Metadata.MatchID,
     GameCreation |-> UnixMilli(rawMatch.Info.GameCreation),
     GameDuration |-> rawMatch.Info.GameDuration,
     GameMode |-> rawMatch.Info.GameMode,
     GameType |-> rawMatch.Info.GameType,
     Participants |->
        Ref([i \in 1..GoLen(rawMatch.Info.Participants) |->
                LET participant == rawMatch.Info.Participants.v[i]
                IN  [PUUID |-> participant.PUUID,
                     SummonerName |-> participant.SummonerName,
                     ChampionID |-> participant.ChampionID,
                     ChampionName |-> participant.ChampionName,
                     Kills |-> participant.Kills,
                     Deaths |-> participant.Deaths,
                     Assists |-> participant.Assists,
                     GoldEarned |-> participant.GoldEarned,
                     TotalDamageDealtToChampions |-> participant.TotalDamageDealtToChampions,
                     TotalDamageTaken |-> participant.TotalDamageTaken,
                     VisionScore |-> participant.VisionScore,
                     TotalMinionsKilled |-> participant.TotalMinionsKilled,
                     Win |-> participant.Win,
                     TeamPosition |-> participant.TeamPosition]])]

\* GetSummonerByPUUID_Return returning the declared Summoner in place of an error.
GetSummonerByPUUID_Fallback(r) ==
    [val |-> Ref(r.target), err |-> NoErr, call |-> r]

\* GetSummonerByPUUID_Return giving neither a Summoner nor an error when the
\* decoded Summoner has no PUUID.
GetSummonerByPUUID_NoneWhenEmpty(r) ==
    IF r.err # NoErr
    THEN [val |-> Nil, err |-> Wrap("failed to get summoner: ", r.err), call |-> r]
    ELSE IF r.target.PUUID = ""
    THEN [val |-> Nil, err |-> NoErr, call |-> r]
    ELSE [val |-> Ref(r.target), err |-> NoErr, call |-> r]

\* What GetSummonerByPUUID returns, r being what its makeRequest call gave.
GetSummonerByPUUID_Return(r) ==
    IF r.err # NoErr
    THEN [val |-> Nil, err |-> Wrap("failed to get summoner: ", r.err), call |-> r]
    ELSE [val |-> Ref(r.target), err |-> NoErr, call |-> r]

\* GetSummonerByPUUID(region, puuid), the upstream answering resp.
GetSummonerByPUUID(s, region, puuid, resp) ==
    LET baseURL == getRegionalURL(region)
        path == <<"/lol/summoner/v4/summoners/by-puuid/", puuid>>
    IN  GetSummonerByPUUID_Return(
            makeRequest(s, buildURL(s, baseURL, path), "summoner", resp))

\* GetMatchDetails_Return converting the declared rawMatch in place of an error.
GetMatchDetails_Fallback(r) ==
    [val |-> Ref(ConvertMatch(r.target)), err |-> NoErr, call |-> r]

\* What GetMatchDetails returns, r being what its makeRequest call gave.
GetMatchDetails_Return(r) ==
    IF r.err # NoErr
    THEN [val |-> Nil, err |-> Wrap("failed to get match details: ", r.err), call |-> r]
    ELSE [val |-> Ref(ConvertMatch(r.target)), err |-> NoErr, call |-> r]

\* GetMatchDetails(region, matchID), the upstream answering resp.
GetMatchDetails(s, region, matchID, resp) ==
    LET baseURL == getMatchRegionalURL(region)
        path == <<"/lol/match/v5/matches/", matchID>>
    IN  GetMatchDetails_Return(
            makeRequest(s, buildURL(s, baseURL, path), "rawMatch", resp))

\* AccountLookup_Return without the check of makeRequest's error.
AccountLookup_IgnoreError(r) ==
    [accountInfo |-> r.target, err |-> NoErr, call |-> r]

\* AccountLookup_Return failing when the account decoded has no PUUID.
AccountLookup_RequirePUUID(r) ==
    IF r.err # NoErr
    THEN [accountInfo |-> r.target, err |-> Wrap("failed to get account info: ", r.err), call |-> r]
    ELSE IF r.target.PUUID = ""
    THEN [accountInfo |-> r.target, err |-> <<"account has no puuid">>, call |-> r]
    ELSE [accountInfo |-> r.target, err |-> NoErr, call |-> r]

\* What step 1 of GetSummonerByRiotID ends with, r being what its makeRequest
\* call gave.
AccountLookup_Return(r) ==
    IF r.err # NoErr
    THEN [accountInfo |-> r.target, err |-> Wrap("failed to get account info: ", r.err), call |-> r]
    ELSE [accountInfo |-> r.target, err |-> NoErr, call |-> r]

\* AccountLookup asking the platform host of the region.
AccountLookup_Platform(s, region, gameName, tagLine, resp) ==
    LET accountURL == getRegionalURL(region)
        accountPath == <<"/riot/account/v1/accounts/by-riot-id/", gameName, "/", tagLine>>
    IN  AccountLookup_Return(
            makeRequest(s, buildURL(s, accountURL, accountPath), "account", resp))

\* Step 1 of GetSummonerByRiotID: the account lookup.
AccountLookup(s, region, gameName, tagLine, resp) ==
    LET accountURL == getMatchRegionalURL(region)
        accountPath == <<"/riot/account/v1/accounts/by-riot-id/", gameName, "/", tagLine>>
    IN  AccountLookup_Return(
            makeRequest(s, buildURL(s, accountURL, accountPath), "account", resp))

\* MatchList_Return without the check of makeRequest's error.
MatchList_IgnoreError(r) ==
    [matchIDs |-> r.target, err |-> NoErr, call |-> r]

\* What the listing call of GetMatchHistory ends with, r being what its
\* makeRequest call gave.
MatchList_Return(r) ==
    IF r.err # NoErr
    THEN [matchIDs |-> r.target, err |-> Wrap("failed to get match list: ", r.err), call |-> r]
    ELSE [matchIDs |-> r.target, err |-> NoErr, call |-> r]

\* The listing call of GetMatchHistory.
MatchList(s, region, puuid, count, resp) ==
    LET baseURL == getMatchRegionalURL(region)
        path == <<"/lol/match/v5/matches/by-puuid/", puuid, "/ids?start=0&count=">> \o Itoa(count)
    IN  MatchList_Return(
            makeRequest(s, buildURL(s, baseURL, path), "matchIDs", resp))

\* ----------------------------------------------------------------- Handler

\* var matchRequest struct { Region, GameName, TagLine, PUUID string; Count int }
MatchRequestFields ==
    [region |-> [go |-> "Region", kind |-> "str"],
     gameName |-> [go |-> "GameName", kind |-> "str"],
     tagLine |-> [go |-> "TagLine", kind |-> "str"],
     puuid |-> [go |-> "PUUID", kind |-> "str"],
     count |-> [go |-> "Count", kind |-> "int"]]

StatusBadRequest == 400
StatusInternalServerError == 500

\* What the handler leaves behind: the status and the message or value it
\* wrote, and the calls it made on its riotService, in order.  A handler that
\* panicked wrote nothing.
Reply(status, body, calls) ==
    [panicked |-> FALSE, status |-> status, body |-> body, calls |-> calls]
Panic(calls) == [panicked |-> TRUE, status |-> 0, body |-> <<>>, calls |-> calls]

\* DefaultCount with 20 as an upper bound too.
DefaultCount_Capped(count) == IF count <= 0 \/ count > 20 THEN 20 ELSE count

\* count := matchRequest.Count; if count <= 0 { count = 20 }
DefaultCount(count) == IF count <= 0 THEN 20 ELSE count

\* The end of GetMatchesByRiotID once the puuid is known: the default count,
\* the GetMatchHistory call and the reply.  service holds what the
\* riotService answers to each call.
GetMatchesByRiotID_History(matchRequest, puuid, calls, service) ==
    LET call == [step |-> "GetMatchHistory", region |-> matchRequest.Region,
                 puuid |-> puuid, count |-> DefaultCount(matchRequest.Count)]
    IN  IF service.history.err # NoErr
        THEN Reply(StatusInternalServerError, service.history.err, Append(calls, call))
        ELSE Reply(StatusOK, service.history.val, Append(calls, call))

\* GetMatchesByRiotID looking the Riot ID up whenever one is given.
GetMatchesByRiotID_RiotIDFirst(doc, service) ==
    LET decoded == Decoded(doc, DecodeStruct(MatchRequestFields, doc))
        matchRequest == decoded.val
        lookup == [step |-> "GetSummonerByRiotID", region |-> matchRequest.Region,
                   gameName |-> matchRequest.GameName, tagLine |-> matchRequest.TagLine]
    IN  IF decoded.err # NoErr
        THEN Reply(StatusBadRequest, "Invalid request body", <<>>)
        ELSE IF matchRequest.Region = ""
        THEN Reply(StatusBadRequest, "region is required", <<>>)
        ELSE IF matchRequest.GameName # "" /\ matchRequest.TagLine # ""
        THEN IF service.summoner.err # NoErr
             THEN Reply(StatusInternalServerError, service.summoner.err, <<lookup>>)
             ELSE IF service.summoner.val = Nil
             THEN Panic(<<lookup>>)
             ELSE GetMatchesByRiotID_History(matchRequest, service.summoner.val.v.PUUID,
                                             <<lookup>>, service)
        ELSE IF matchRequest.PUUID # ""
        THEN GetMatchesByRiotID_History(matchRequest, matchRequest.PUUID, <<>>, service)
        ELSE Reply(StatusBadRequest,
                   "either (gameName and tagLine) or puuid is required", <<>>)

\* GetMatchesByRiotID going on to GetMatchHistory after a failed lookup, with
\* the PUUID of the Summoner it got, if any.
GetMatchesByRiotID_IgnoreLookupError(doc, service) ==
    LET decoded == Decoded(doc, DecodeStruct(MatchRequestFields, doc))
        matchRequest == decoded.val
        lookup == [step |-> "GetSummonerByRiotID", region |-> matchRequest.Region,
                   gameName |-> matchRequest.GameName, tagLine |-> matchRequest.TagLine]
    IN  IF decoded.err # NoErr
        THEN Reply(StatusBadRequest, "Invalid request body", <<>>)
        ELSE IF matchRequest.Region = ""
        THEN Reply(StatusBadRequest, "region is required", <<>>)
        ELSE IF matchRequest.PUUID # ""
        THEN GetMatchesByRiotID_History(matchRequest, matchRequest.PUUID, <<>>, service)
        ELSE IF matchRequest.GameName # "" /\ matchRequest.TagLine # ""
        THEN IF service.summoner.val = Nil
             THEN GetMatchesByRiotID_History(matchRequest, "", <<lookup>>, service)
             ELSE GetMatchesByRiotID_History(matchRequest, service.summoner.val.v.PUUID,
                                             <<lookup>>, service)
        ELSE Reply(StatusBadRequest,
                   "either (gameName and tagLine) or puuid is required", <<>>)

\* Handler.GetMatchesByRiotID on a request whose body parses to doc.
GetMatchesByRiotID(doc, service) ==
    LET decoded == Decoded(doc, DecodeStruct(MatchRequestFields, doc))
        matchRequest == decoded.val
        lookup == [step |-> "GetSummonerByRiotID", region |-> matchRequest.Region,
                   gameName |-> matchRequest.GameName, tagLine |-> matchRequest.TagLine]
    IN  IF decoded.err # NoErr
        THEN Reply(StatusBadRequest, "Invalid request body", <<>>)
        ELSE IF matchRequest.Region = ""
        THEN Reply(StatusBadRequest, "region is required", <<>>)
        ELSE IF matchRequest.PUUID # ""
        THEN GetMatchesByRiotID_History(matchRequest, matchRequest.PUUID, <<>>, service)
        ELSE IF matchRequest.GameName # "" /\ matchRequest.TagLine # ""
        THEN IF service.summoner.err # NoErr
             THEN Reply(StatusInternalServerError, service.summoner.err, <<lookup>>)
             ELSE IF service.summoner.val = Nil
             THEN Panic(<<lookup>>)
             ELSE GetMatchesByRiotID_History(matchRequest, service.summoner.val.v.PUUID,
                                             <<lookup>>, service)
        ELSE Reply(StatusBadRequest,
                   "either (gameName and tagLine) or puuid is required", <<>>)

\* var summonerRequest struct { Region, GameName, TagLine string }
SummonerRequestFields ==
    [region |-> [go |-> "Region", kind |-> "str"],
     gameName |-> [go |-> "GameName", kind |-> "str"],
     tagLine |-> [go |-> "TagLine", kind |-> "str"]]

\* A request body as json.NewDecoder(request.Body).Decode reads it: the first
\* JSON value of the body (JInvalid when the body does not start with one) and
\* whether other bytes follow that value.  Decode reads one value and leaves
\* what follows it unread.
Body(doc, trailing) == [doc |-> doc, trailing |-> trailing]

\* Handler.GetSummonerByRiotID on a request with the given body.
Handler_GetSummonerByRiotID(body, service) ==
    LET decoded == Decoded(body.doc, DecodeStruct(SummonerRequestFields, body.doc))
        summonerRequest == decoded.val
        lookup == [step |-> "GetSummonerByRiotID", region |-> summonerRequest.Region,
                   gameName |-> summonerRequest.GameName,
                   tagLine |-> summonerRequest.TagLine]
    IN  IF decoded.err # NoErr
        THEN Reply(StatusBadRequest, "Invalid request body", <<>>)
        ELSE IF summonerRequest.Region = "" \/ summonerRequest.GameName = ""
                \/ summonerRequest.TagLine = ""
        THEN Reply(StatusBadRequest, "region, gameName, and tagLine are required", <<>>)
        ELSE IF service.summoner.err # NoErr
        THEN Reply(StatusInternalServerError, service.summoner.err, <<lookup>>)
        ELSE Reply(StatusOK, service.summoner.val, <<lookup>>)

\* ------------------------------------------------------------------- config
\*
\* An environment gives each variable Nil (not set) or a reference to its
\* value (set, possibly to the empty string).  The .env file is Nil when there
\* is none, or a reference to the variables it assigns, in the same form.

\* godotenv.Load letting the file override the environment.
Load_Overload(env, file) ==
    IF file = Nil THEN env
    ELSE [k \in DOMAIN env |-> IF file.v[k] # Nil THEN file.v[k] ELSE env[k]]

\* godotenv.Load(): the variables of the .env file that the environment does
\* not have are set from the file; a missing file changes nothing.
Load(env, file) ==
    IF file = Nil THEN env
    ELSE [k \in DOMAIN env |-> IF env[k] = Nil THEN file.v[k] ELSE env[k]]

\* os.Getenv: the value of the variable, empty when it is not set.
Getenv(env, key) == IF env[key] = Nil THEN "" ELSE env[key].v

\* LoadConfig(), run in the environment env beside the given .env file.
\* warned tells whether the RIOT_API_KEY warning was logged.
LoadConfig(env, file) ==
    LET loaded == Load(env, file)
        riotAPIKey == Getenv(loaded, "RIOT_API_KEY")
        serverPort == IF Getenv(loaded, "PORT") = "" THEN "8081"
                      ELSE Getenv(loaded, "PORT")
        databaseURL == Getenv(loaded, "DATABASE_URL")
    IN  [config |-> Ref([RiotAPIKey |-> riotAPIKey, ServerPort |-> serverPort,
                         DatabaseURL |-> databaseURL]),
         warned |-> riotAPIKey = ""]

\* ------------------------------------------------------------------- Router
\*
\* A URL path is the sequence of its segments, the text between its slashes
\* after the first: /health is <<"health">>, /health/ is <<"health", "">>,
\* //health is <<"", "health">> and / is <<"">>.

StatusMovedPermanently == 301
StatusNotFound == 404
StatusMethodNotAllowed == 405

\* SetupRouter with the health check open to every method.
SetupRouter_HealthAnyMethod ==
    <<[path |-> <<"health">>, handler |-> "HealthCheck",
       methods |-> {"GET", "HEAD", "POST", "PUT", "DELETE", "OPTIONS"}],
      [path |-> <<"api", "v1", "summoner">>, handler |-> "GetSummonerByRiotID",
       methods |-> {"POST"}],
      [path |-> <<"api", "v1", "matches">>, handler |-> "GetMatchesByRiotID",
       methods |-> {"POST"}]>>

\* The routes SetupRouter registers, in order.
SetupRouter ==
    <<[path |-> <<"health">>, handler |-> "HealthCheck", methods |-> {"POST"}],
      [path |-> <<"api", "v1", "summoner">>, handler |-> "GetSummonerByRiotID",
       methods |-> {"POST"}],
      [path |-> <<"api", "v1", "matches">>, handler |-> "GetMatchesByRiotID",
       methods |-> {"POST"}]>>

\* path.Clean on the segments: empty and "." segments go, ".." takes the
\* segment before it along (none at the root).
RECURSIVE CleanSegments(_, _)
CleanSegments(segments, kept) ==
    IF segments = <<>> THEN kept
    ELSE IF Head(segments) \in {"", "."} THEN CleanSegments(Tail(segments), kept)
    ELSE IF Head(segments) = ".."
    THEN CleanSegments(Tail(segments),
                       IF kept = <<>> THEN kept ELSE SubSeq(kept, 1, Len(kept) - 1))
    ELSE CleanSegments(Tail(segments), Append(kept, Head(segments)))

\* The router's cleanPath: path.Clean, the trailing slash put back.
cleanPath(path) ==
    LET np == CleanSegments(path, <<>>)
    IN  IF np = <<>> THEN <<"">>
        ELSE IF path[Len(path)] = "" THEN Append(np, "")
        ELSE np

\* The routes whose path template matches the path.
PathMatches(routes, path) == {i \in 1..Len(routes) : routes[i].path = path}

\* Router.ServeHTTP: a path that is not clean is redirected to its clean
\* form; the first route matching path and method gets the request; a path
\* that only routes of other methods match is answered 405, any other 404.
ServeHTTP(routes, method, path) ==
    LET full == {i \in PathMatches(routes, path) : method \in routes[i].methods}
    IN  IF cleanPath(path) # path
        THEN [handler |-> "none", status |-> StatusMovedPermanently]
        ELSE IF full # {}
        THEN [handler |-> routes[CHOOSE i \in full : \A j \in full : i <= j].handler,
              status |-> 0]
        ELSE IF PathMatches(routes, path) # {}
        THEN [handler |-> "none", status |-> StatusMethodNotAllowed]
        ELSE [handler |-> "none", status |-> StatusNotFound]

\* ------------------------------------------------------------ the upstream

SeqsUpTo(S, n) == UNION {[1..k -> S] : k \in 0..n}

\* The value of a decimal spelling.
RECURSIVE Atoi(_)
Atoi(t) == IF t = <<>> THEN 0
           ELSE 10 * Atoi(SubSeq(t, 1, Len(t) - 1))
                + (CHOOSE d \in 0..9 : Digits[d + 1] = t[Len(t)])

IsDigit(c) == \E d \in 1..10 : Digits[d] = c

\* Characters of a plain-text body: a digit and a separator character.
BodyChars == {"7", ":"}

\* What a plain-text body parses to: a JSON number when it is all digits,
\* not JSON otherwise.
TextDoc(t) == IF t # <<>> /\ \A i \in 1..Len(t) : IsDigit(t[i])
              THEN JNum(Atoi(t)) ELSE JInvalid

TextBodies == {[text |-> t, doc |-> TextDoc(t)] : t \in SeqsUpTo(BodyChars, MaxBodyLen)}

\* JSON bodies common to every endpoint.
CommonBodies ==
    {[text |-> <<"{}">>, doc |-> EmptyObj], [text |-> <<"null">>, doc |-> JNull]}

UpstreamPUUIDs == {"p1"}

\* The PUUIDs the provider gives in an account; one of them cannot be put in
\* a URL.
AccountPUUIDs == UpstreamPUUIDs \cup {BadEscape}

AccountBodies ==
    {[text |-> <<"{puuid:", p, ",gameName:g1,tagLine:t1}">>,
      doc |-> JObj([puuid |-> JStr(p), gameName |-> JStr("g1"), tagLine |-> JStr("t1")])]
        : p \in AccountPUUIDs}
    \cup {[text |-> <<"{puuid:7}">>, doc |-> JObj([puuid |-> JNum(7)])]}

SummonerBodies ==
    {[text |-> <<"{id:summoner-id,accountId:account-id,puuid:", p,
                 ",name:TestPlayer,profileIconId:1234,summonerLevel:150}">>,
      doc |-> JObj([id |-> JStr("summoner-id"), accountId |-> JStr("account-id"),
                    puuid |-> JStr(p), name |-> JStr("TestPlayer"),
                    profileIconId |-> JNum(1234), summonerLevel |-> JNum(150)])]
        : p \in UpstreamPUUIDs}
    \cup {[text |-> <<"{summonerLevel:x}">>, doc |-> JObj([summonerLevel |-> JStr("x")])]}

\* IDs the provider lists; one of them cannot be put in a URL.
ListedIDs == {"NA1_123", "NA1_124", BadEscape}

ListBodies ==
    {[text |-> <<"[">> \o ids \o <<"]">>,
      doc |-> JArr([i \in 1..Len(ids) |-> JStr(ids[i])])] : ids \in SeqsUpTo(ListedIDs, MaxK)}
    \cup {[text |-> <<"[7]">>, doc |-> JArr(<<JNum(7)>>)]}

ParticipantDoc ==
    JObj([puuid |-> JStr("test-puuid"), summonerName |-> JStr("TestPlayer"),
          championId |-> JNum(103), championName |-> JStr("Ahri"),
          kills |-> JNum(10), deaths |-> JNum(5), assists |-> JNum(15),
          goldEarned |-> JNum(15000), totalDamageDealtToChampions |-> JNum(25000),
          totalDamageTaken |-> JNum(18000), visionScore |-> JNum(30),
          totalMinionsKilled |-> JNum(180), win |-> JBool(TRUE),
          teamPosition |-> JStr("MIDDLE")])

PayloadIDs == {"NA1_123", "NA1_124"}

DetailBodies ==
    {[text |-> <<"{metadata:{matchId:", m, "},info:{gameCreation:1500,participants:",
                 Itoa(Len(ps))[1], "}}">>,
      doc |-> JObj([metadata |-> JObj([matchId |-> JStr(m)]),
                    info |-> JObj([gameCreation |-> JNum(1500), gameDuration |-> JNum(1800),
                                   gameMode |-> JStr("CLASSIC"),
                                   gameType |-> JStr("MATCHED_GAME"),
                                   participants |-> JArr(ps)])])]
        : m \in PayloadIDs, ps \in SeqsUpTo({ParticipantDoc}, MaxParticipants)}
    \cup {[text |-> <<"{info:7}">>, doc |-> JObj([info |-> JNum(7)])]}

\* A participant the provider describes by its puuid and its kills alone.
SparseParticipantDoc == JObj([puuid |-> JStr("other-puuid"), kills |-> JNum(3)])

\* gameCreation values, in milliseconds since the epoch: before it, at it, on
\* and off a whole second, and a large one.
Creations == {-1500, -1001, -1, 0, 1, 999, 1000, 1500, 1700000000}

\* The decimal spelling of an integer.
SignedText(n) == IF n < 0 THEN <<"-">> \o Itoa(-n) ELSE Itoa(n)

\* Match payloads with every gameCreation and every roster of up to MaxRoster
\* participants.
RosterBodies ==
    {[text |-> <<"{metadata:{matchId:NA1_123},info:{gameCreation:">> \o SignedText(g)
                \o <<",participants:">>
                \o [i \in 1..Len(ps) |-> ps[i].o.puuid.s] \o <<"}}">>,
      doc |-> JObj([metadata |-> JObj([matchId |-> JStr("NA1_123")]),
                    info |-> JObj([gameCreation |-> JNum(g), gameDuration |-> JNum(1800),
                                   gameMode |-> JStr("CLASSIC"),
                                   gameType |-> JStr("MATCHED_GAME"),
                                   participants |-> JArr(ps)])])]
        : g \in Creations,
          ps \in SeqsUpTo({ParticipantDoc, SparseParticipantDoc}, MaxRoster)}

Shapes == {"account", "summoner", "matchIDs", "rawMatch"}

\* The bodies the upstream can answer with, per shape asked for.
Bodies ==
    [shape \in Shapes |->
        TextBodies \cup CommonBodies \cup
        (CASE shape = "account" -> AccountBodies
           [] shape = "summoner" -> SummonerBodies
           [] shape = "matchIDs" -> ListBodies
           [] shape = "rawMatch" -> DetailBodies)]

Statuses == {200, 201, 204, 401, 404, 429, 500}

\* The responses the upstream can give, per shape asked for.
Answers ==
    [shape \in Shapes |->
        {[got |-> TRUE, status |-> st, body |-> b] : st \in Statuses, b \in Bodies[shape]}]

\* Why httpClient.Do got no response; the client gives up on its own only
\* when it has a Timeout.
TransportCauses(s) ==
    {"connection refused"} \cup
    (IF s.httpClient.Timeout > 0 THEN {"timeout"} ELSE {})

\* Every way one request for the given shape can end.
Responses(s, shape) ==
    {[got |-> FALSE, cause |-> c] : c \in TransportCauses(s)} \cup Answers[shape]

\* Every way the request of a direct GetMatchDetails call can end.
DetailResponses(s) ==
    Responses(s, "rawMatch")
    \cup {[got |-> TRUE, status |-> StatusOK, body |-> b] : b \in RosterBodies}

\* ------------------------------------------------------------------- inputs

\* The keys an instance is configured with; LoadConfig hands main an empty key
\* when none is set.
APIKeys == {"test-api-key", ""}
Regions == {"kr", ""}
PUUIDs == {"test-puuid", BadEscape}
GameNames == {"TestPlayer", BadEscape}
TagLines == {"NA1"}
MatchIDs == {"NA1_123", BadEscape}
Counts == {1, 20}

\* Region codes handed to the routing lookups: the eleven of the tables, and
\* codes that are in neither table: unknown, empty, differently cased, padded,
\* a host name.
RegionCodes ==
    {"na", "euw", "eune", "kr", "br", "jp", "ru", "oce", "tr", "lan", "las",
     "unknown", "", "NA", "Kr", "EUW", " na", "americas", "na1"}

\* What a field of a request body can hold; JNull stands for a key left out.
RegionValues == {JNull, JStr(""), JStr("kr")}
GameNameValues == {JNull, JStr(""), JStr("TestPlayer")}
TagLineValues == {JNull, JStr(""), JStr("NA1")}
PUUIDValues == {JNull, JStr(""), JStr("test-puuid")}
CountValues == {JNull, JNum(-5), JNum(0), JNum(1), JNum(10), JNum(100), JStr("ten")}

\* The request bodies handed to the matches handler.
RequestDocs ==
    {JObj([region |-> r, gameName |-> g, tagLine |-> t, puuid |-> p, count |-> c]) :
        r \in RegionValues, g \in GameNameValues, t \in TagLineValues,
        p \in PUUIDValues, c \in CountValues}
    \cup {JInvalid, EmptyObj}

\* The request bodies posted to the matches handler of the running service.
ServedDocs ==
    {JObj([region |-> r, gameName |-> g, tagLine |-> JStr("NA1"), puuid |-> p,
           count |-> c]) :
        r \in {JStr(""), JStr("kr")}, g \in {JNull, JStr("TestPlayer")},
        p \in {JNull, JStr("test-puuid")}, c \in {JNum(1)}}

\* What the riotService of a Handler answers: to GetSummonerByRiotID a
\* Summoner, an error, or neither (the MockRiotService without a function);
\* to GetMatchHistory matches or an error.
\* The errors a riotService returns: the one of the MockRiotService of the
\* tests, and errors of each kind as the RiotService builds them, context is
\* the text the failed operation puts in front.
ServiceErrors(context) ==
    {<<"riot API error">>,
     Wrap(context, Wrap("failed to execute request: ", <<"connection refused">>)),
     Wrap(context, StatusError(404, <<"{}">>)),
     Wrap(context, Wrap("failed to decode response: ", <<"syntax">>))}
SummonerAnswers ==
    {[val |-> Ref([Zero("summoner") EXCEPT !.PUUID = p]), err |-> NoErr] :
        p \in {"riot-puuid", ""}}
    \cup {[val |-> Nil, err |-> e] : e \in ServiceErrors("failed to get account info: ")}
    \cup {[val |-> Nil, err |-> NoErr],
          [val |-> Ref(Zero("summoner")), err |-> <<"riot API error">>]}
HistoryAnswers ==
    {[val |-> Ref(<<>>), err |-> NoErr]}
    \cup {[val |-> Nil, err |-> e] : e \in ServiceErrors("failed to get match list: ")}
HandlerServices ==
    {[summoner |-> a, history |-> h] : a \in SummonerAnswers, h \in HistoryAnswers}

\* What a field of the body of a summoner request can hold.
FieldValues(v) == {JNull, JStr(""), JStr(v), JNum(7)}

\* The request bodies handed to the summoner handler: a JSON object, alone or
\* followed by other bytes; JSON values that are no object; text that is not
\* JSON; the empty body.
SummonerRequestBodies ==
    {Body(JObj([region |-> r, gameName |-> g, tagLine |-> t]), trailing) :
        r \in FieldValues("na"), g \in FieldValues("TestPlayer"),
        t \in FieldValues("NA1"), trailing \in BOOLEAN}
    \cup {Body(doc, trailing) :
            doc \in {EmptyObj, JNull, JArr(<<>>), JStr("na")}, trailing \in BOOLEAN}
    \cup {Body(JInvalid, TRUE), Body(JInvalid, FALSE)}

\* The environments LoadConfig runs in and the .env files beside it.
Environments ==
    {[RIOT_API_KEY |-> k, PORT |-> p, DATABASE_URL |-> d] :
        k \in {Nil, Ref(""), Ref("test-api-key")},
        p \in {Nil, Ref(""), Ref("9000"), Ref("3000")},
        d \in {Nil, Ref("postgres://localhost:5432/test")}}
DotenvFiles ==
    {Nil} \cup
    {Ref([RIOT_API_KEY |-> k, PORT |-> p, DATABASE_URL |-> Nil]) :
        k \in {Nil, Ref("file-api-key")}, p \in {Nil, Ref(""), Ref("7000")}}

\* The methods and the paths of the requests sent to the router.
Methods == {"GET", "HEAD", "POST", "PUT", "DELETE", "OPTIONS"}
RequestPaths ==
    {<<"health">>, <<"api", "v1", "summoner">>, <<"api", "v1", "matches">>,
     <<"api", "v1", "unknown">>, <<"">>, <<"Health">>, <<"api", "v1">>,
     <<"api", "v1", "summoner", "na">>, <<"health", "">>, <<"", "health">>,
     <<"health", ".">>, <<"api", "v1", "..", "..", "health">>, <<"..", "unknown">>}

Services ==
    {NewRiotService(k) : k \in APIKeys}
    \cup {NewRiotServiceWithBaseURL(k, "http://stub", [Timeout |-> 0]) : k \in APIKeys}

\* -------------------------------------------------------------------- state

VARIABLES
    svc,        \* the RiotService instance
    pc,         \* "idle", "summoner" (GetSummonerByRiotID between its steps),
                \* "loop" (GetMatchHistory in its loop) or "done"
    frame,      \* the running operation: its name, arguments and locals
    requests,   \* the requests handed to httpClient.Do by the operation, in order
    steps,      \* one entry per makeRequest call of the operation, in order
    result      \* what the operation returned

vars == <<svc, pc, frame, requests, steps, result>>

NoFrame == [op |-> "none"]
NoResult == [returned |-> FALSE]
Returned(val, err) == [returned |-> TRUE, val |-> val, err |-> err]

\* The entry of one makeRequest call made for a step, r being what the step
\* returned and resp the upstream's answer: whether makeRequest succeeded, the
\* document the upstream answered with, the error makeRequest returned and the
\* error the step returned.
Step(name, key, r, resp) ==
    [step |-> name, key |-> key, ok |-> r.call.err = NoErr,
     doc |-> IF r.call.sent # <<>> /\ resp.got THEN resp.body.doc ELSE JInvalid,
     cause |-> r.call.err, err |-> r.err]

\* The entry of a failed call whose error the caller discards.
Dropped(name, key) == [step |-> name, key |-> key, ok |-> FALSE]

\* The entry of one iteration of the loop of GetMatchHistory.
LoopStep(matchID, d, resp) ==
    IF d.call.err = NoErr THEN Step("detail", matchID, d, resp)
    ELSE Dropped("detail", matchID)

Init ==
    /\ svc \in Services
    /\ pc = "idle"
    /\ frame = NoFrame
    /\ requests = <<>>
    /\ steps = <<>>
    /\ result = NoResult

\* ------------------------------------------------------------------ actions

\* A direct call of makeRequest on a URL under the instance's endpoint.
Call_makeRequest ==
    /\ pc = "idle"
    /\ \E shape \in Shapes, piece \in MatchIDs :
         LET url == buildURL(svc, getRegionalURL("na"), <<"/test/path/", piece>>)
         IN  \E resp \in Responses(svc, shape) :
               \E r \in {makeRequest(svc, url, shape, resp)} :
                   /\ frame' = [op |-> "makeRequest", url |-> url, shape |-> shape,
                                resp |-> resp]
                   /\ requests' = r.sent
                   /\ steps' = <<>>
                   /\ result' = Returned(r.target, r.err)
    /\ pc' = "done"
    /\ UNCHANGED svc

Call_GetSummonerByPUUID ==
    /\ pc = "idle"
    /\ \E region \in Regions, puuid \in PUUIDs :
         \E resp \in Responses(svc, "summoner") :
           \E r \in {GetSummonerByPUUID(svc, region, puuid, resp)} :
               /\ frame' = [op |-> "GetSummonerByPUUID", region |-> region, puuid |-> puuid]
               /\ requests' = r.call.sent
               /\ steps' = <<Step("summoner", puuid, r, resp)>>
               /\ result' = Returned(r.val, r.err)
    /\ pc' = "done"
    /\ UNCHANGED svc

Call_GetMatchDetails ==
    /\ pc = "idle"
    /\ \E region \in Regions, matchID \in MatchIDs :
         \E resp \in DetailResponses(svc) :
           \E r \in {GetMatchDetails(svc, region, matchID, resp)} :
               /\ frame' = [op |-> "GetMatchDetails", region |-> region, matchID |-> matchID]
               /\ requests' = r.call.sent
               /\ steps' = <<Step("detail", matchID, r, resp)>>
               /\ result' = Returned(r.val, r.err)
    /\ pc' = "done"
    /\ UNCHANGED svc

\* A direct call of getRegionalURL.
Call_getRegionalURL ==
    /\ pc = "idle"
    /\ \E region \in RegionCodes :
         /\ frame' = [op |-> "getRegionalURL", region |-> region]
         /\ result' = Returned(getRegionalURL(region), NoErr)
    /\ requests' = <<>>
    /\ steps' = <<>>
    /\ pc' = "done"
    /\ UNCHANGED svc

\* A direct call of getMatchRegionalURL.
Call_getMatchRegionalURL ==
    /\ pc = "idle"
    /\ \E region \in RegionCodes :
         /\ frame' = [op |-> "getMatchRegionalURL", region |-> region]
         /\ result' = Returned(getMatchRegionalURL(region), NoErr)
    /\ requests' = <<>>
    /\ steps' = <<>>
    /\ pc' = "done"
    /\ UNCHANGED svc

\* A request to POST /api/v1/matches, served by a Handler over a riotService
\* with the given answers.
Call_GetMatchesByRiotID ==
    /\ pc = "idle"
    /\ \E doc \in RequestDocs, service \in HandlerServices :
         \E reply \in {GetMatchesByRiotID(doc, service)} :
             /\ frame' = [op |-> "Handler.GetMatchesByRiotID", body |-> doc,
                          service |-> service]
             /\ steps' = reply.calls
             /\ result' = Returned([panicked |-> reply.panicked, status |-> reply.status,
                                    body |-> reply.body], NoErr)
    /\ requests' = <<>>
    /\ pc' = "done"
    /\ UNCHANGED svc

\* GetSummonerByRiotID(region, gameName, tagLine) run on its own, resps being
\* what its calls end with, in order.
GetSummonerByRiotID(s, region, gameName, tagLine, resps) ==
    LET account == AccountLookup(s, region, gameName, tagLine, resps[1])
    IN  IF account.err # NoErr THEN Returned(Nil, account.err)
        ELSE LET found == GetSummonerByPUUID(s, region, account.accountInfo.PUUID, resps[2])
             IN  Returned(found.val, found.err)

\* A request to POST /api/v1/matches, served by the Handler main constructs:
\* its riotService is the instance, and the lookup of the Riot ID is answered
\* by GetSummonerByRiotID run on it, its calls ending with resps.
Serve_GetMatchesByRiotID ==
    /\ pc = "idle"
    /\ \E doc \in ServedDocs :
         \E resps \in Responses(svc, "account") \X Responses(svc, "summoner") :
           \E matchRequest \in {Decoded(doc, DecodeStruct(MatchRequestFields, doc)).val} :
             \E found \in {GetSummonerByRiotID(svc, matchRequest.Region,
                                matchRequest.GameName, matchRequest.TagLine, resps)} :
               \E history \in HistoryAnswers :
                 \E service \in {[summoner |-> [val |-> found.val, err |-> found.err],
                                   history |-> history]} :
                   \E reply \in {GetMatchesByRiotID(doc, service)} :
                     /\ frame' = [op |-> "Handler.GetMatchesByRiotID", body |-> doc,
                                  service |-> service, riotService |-> svc]
                     /\ steps' = reply.calls
                     /\ result' = Returned([panicked |-> reply.panicked,
                                            status |-> reply.status,
                                            body |-> reply.body], NoErr)
    /\ requests' = <<>>
    /\ pc' = "done"
    /\ UNCHANGED svc

\* A request to POST /api/v1/summoner, served by a Handler over a riotService
\* with the given answers.
Call_Handler_GetSummonerByRiotID ==
    /\ pc = "idle"
    /\ \E body \in SummonerRequestBodies, service \in HandlerServices :
         \E reply \in {Handler_GetSummonerByRiotID(body, service)} :
             /\ frame' = [op |-> "Handler.GetSummonerByRiotID", body |-> body,
                          service |-> service]
             /\ steps' = reply.calls
             /\ result' = Returned([panicked |-> reply.panicked, status |-> reply.status,
                                    body |-> reply.body], NoErr)
    /\ requests' = <<>>
    /\ pc' = "done"
    /\ UNCHANGED svc

\* The service starts: LoadConfig reads the environment.
Call_LoadConfig ==
    /\ pc = "idle"
    /\ \E env \in Environments, file \in DotenvFiles :
         \E loaded \in {LoadConfig(env, file)} :
             /\ frame' = [op |-> "LoadConfig", env |-> env, file |-> file,
                          warned |-> loaded.warned]
             /\ result' = Returned(loaded.config, NoErr)
    /\ requests' = <<>>
    /\ steps' = <<>>
    /\ pc' = "done"
    /\ UNCHANGED svc

\* A request arrives at the router SetupRouter built.  The result holds the
\* handler the request was handed to, or the status the router answered.
Call_ServeHTTP ==
    /\ pc = "idle"
    /\ \E method \in Methods, path \in RequestPaths :
         /\ frame' = [op |-> "Router.ServeHTTP", method |-> method, path |-> path]
         /\ result' = Returned(ServeHTTP(SetupRouter, method, path), NoErr)
    /\ requests' = <<>>
    /\ steps' = <<>>
    /\ pc' = "done"
    /\ UNCHANGED svc

\* GetSummonerByRiotID up to the end of step 1: the account lookup, and the
\* return of its error when it fails.
GetSummonerByRiotID_Account ==
    /\ pc = "idle"
    /\ \E region \in Regions, gameName \in GameNames, tagLine \in TagLines :
         \E resp \in Responses(svc, "account") :
           \E r \in {AccountLookup(svc, region, gameName, tagLine, resp)} :
               /\ frame' = [op |-> "GetSummonerByRiotID", region |-> region,
                            gameName |-> gameName, tagLine |-> tagLine,
                            accountInfo |-> r.accountInfo]
               /\ requests' = r.call.sent
               /\ steps' = <<Step("account", gameName, r, resp)>>
               /\ IF r.err # NoErr
                  THEN pc' = "done" /\ result' = Returned(Nil, r.err)
                  ELSE pc' = "summoner" /\ result' = NoResult
    /\ UNCHANGED svc

\* Step 2 of GetSummonerByRiotID: return GetSummonerByPUUID(region, accountInfo.PUUID).
GetSummonerByRiotID_Summoner ==
    /\ pc = "summoner"
    /\ \E resp \in Responses(svc, "summoner") :
         \E r \in {GetSummonerByPUUID(svc, frame.region, frame.accountInfo.PUUID, resp)} :
             /\ requests' = requests \o r.call.sent
             /\ steps' = Append(steps, Step("summoner", frame.accountInfo.PUUID, r, resp))
             /\ result' = Returned(r.val, r.err)
    /\ pc' = "done"
    /\ UNCHANGED <<svc, frame>>

\* GetMatchHistory up to its loop: the listing call, the return of its error
\* when it fails, and matches := make([]models.Match, 0, len(matchIDs)).
GetMatchHistory_List ==
    /\ pc = "idle"
    /\ \E region \in Regions, puuid \in PUUIDs, count \in Counts :
         \E resp \in Responses(svc, "matchIDs") :
           \E r \in {MatchList(svc, region, puuid, count, resp)} :
               /\ frame' = [op |-> "GetMatchHistory", region |-> region, puuid |-> puuid,
                            count |-> count, matchIDs |-> r.matchIDs, i |-> 1,
                            matches |-> <<>>]
               /\ requests' = r.call.sent
               /\ steps' = <<Step("list", puuid, r, resp)>>
               /\ IF r.err # NoErr
                  THEN pc' = "done" /\ result' = Returned(Nil, r.err)
                  ELSE pc' = "loop" /\ result' = NoResult
    /\ UNCHANGED svc

\* LoopBody with a placeholder Match appended for a failed fetch.
LoopBody_Placeholder(matches, d) ==
    IF d.err # NoErr THEN Append(matches, ConvertMatch(Zero("rawMatch")))
    ELSE Append(matches, d.val.v)

\* LoopBody putting each new Match in front of the ones collected so far.
LoopBody_Prepend(matches, d) ==
    IF d.err # NoErr THEN matches ELSE <<d.val.v>> \o matches

\* What one iteration of the loop does to matches, d being what GetMatchDetails
\* returned for the current ID.
LoopBody(matches, d) ==
    IF d.err # NoErr THEN matches ELSE Append(matches, d.val.v)

\* GetMatchHistory_Fetch returning the error of a failed detail fetch.
GetMatchHistory_Fetch_Abort ==
    /\ pc = "loop"
    /\ frame.i <= GoLen(frame.matchIDs)
    /\ LET matchID == frame.matchIDs.v[frame.i]
       IN  \E resp \in Responses(svc, "rawMatch") :
             \E d \in {GetMatchDetails(svc, frame.region, matchID, resp)} :
                 /\ frame' = [frame EXCEPT !.i = @ + 1,
                                           !.matches = LoopBody(@, d)]
                 /\ requests' = requests \o d.call.sent
                 /\ steps' = Append(steps, LoopStep(matchID, d, resp))
                 /\ IF d.err # NoErr
                    THEN pc' = "done" /\ result' = Returned(Nil, d.err)
                    ELSE UNCHANGED <<pc, result>>
    /\ UNCHANGED svc

\* One iteration of the loop of GetMatchHistory, over matchIDs[i].
GetMatchHistory_Fetch ==
    /\ pc = "loop"
    /\ frame.i <= GoLen(frame.matchIDs)
    /\ LET matchID == frame.matchIDs.v[frame.i]
       IN  \E resp \in Responses(svc, "rawMatch") :
             \E d \in {GetMatchDetails(svc, frame.region, matchID, resp)} :
                 /\ frame' = [frame EXCEPT !.i = @ + 1,
                                           !.matches = LoopBody(@, d)]
                 /\ requests' = requests \o d.call.sent
                 /\ steps' = Append(steps, LoopStep(matchID, d, resp))
    /\ UNCHANGED <<svc, pc, result>>

\* The end of the loop: return matches, nil.
GetMatchHistory_Return ==
    /\ pc = "loop"
    /\ frame.i > GoLen(frame.matchIDs)
    /\ result' = Returned(Ref(frame.matches), NoErr)
    /\ pc' = "done"
    /\ UNCHANGED <<svc, frame, requests, steps>>

\* The caller takes the result; the instance is ready for the next call.
Finish ==
    /\ pc = "done"
    /\ pc' = "idle"
    /\ frame' = NoFrame
    /\ requests' = <<>>
    /\ steps' = <<>>
    /\ result' = NoResult
    /\ UNCHANGED svc

Next ==
    \/ Call_makeRequest
    \/ Call_GetSummonerByPUUID
    \/ Call_GetMatchDetails
    \/ Call_getRegionalURL
    \/ Call_getMatchRegionalURL
    \/ Call_GetMatchesByRiotID
    \/ Serve_GetMatchesByRiotID
    \/ Call_Handler_GetSummonerByRiotID
    \/ Call_ServeHTTP
    \/ Call_LoadConfig
    \/ GetSummonerByRiotID_Account
    \/ GetSummonerByRiotID_Summoner
    \/ GetMatchHistory_List
    \/ GetMatchHistory_Fetch
    \/ GetMatchHistory_Return
    \/ Finish

Spec == Init /\ [][Next]_vars

\* ---------------------------------------------- operations run concurrently
\*
\* Several top-level operations run at once on one instance, each in its own
\* goroutine.  Here pc, frame, steps and result hold one value per operation,
\* and requests is the set of the requests handed to httpClient.Do and not yet
\* answered.  A call is two steps: the request is handed over, then
\* httpClient.Do returns.

\* The goroutines calling the instance.
Callers == {"a", "b"}

\* The operation a caller runs.  stage is the call the operation stands at,
\* ids the match IDs it fetches, i the one it is at, matches the Matches
\* collected so far.
Invocation(op, stage, region, name, tag, puuid, count, ids) ==
    [op |-> op, stage |-> stage, region |-> region, name |-> name, tag |-> tag,
     puuid |-> puuid, count |-> count, ids |-> ids, i |-> 1, matches |-> <<>>]

Invocations ==
    {Invocation("GetSummonerByRiotID", "account", "kr", "TestPlayer", "NA1", "", 0, Nil),
     Invocation("GetMatchHistory", "list", "kr", "", "", "test-puuid", 20, Nil),
     Invocation("GetMatchDetails", "detail", "kr", "", "", "", 0, Ref(<<"NA1_123">>))}
    \cup {Invocation("GetSummonerByPUUID", "summoner", "kr", "", "", p, 0, Nil) : p \in PUUIDs}

\* The shape decoded at each stage.
StageShape(stage) ==
    CASE stage = "account" -> "account"
      [] stage = "summoner" -> "summoner"
      [] stage = "list" -> "matchIDs"
      [] stage = "detail" -> "rawMatch"

\* The listings the provider answers with here: the first k of alternating IDs.
Listings ==
    {[i \in 1..k |-> IF i % 2 = 1 THEN "NA1_123" ELSE "NA1_124"] : k \in 0..MaxK}

\* The bodies of the successful answers, per shape.
GoodBodies ==
    [shape \in Shapes |->
        CASE shape = "account" -> {b \in AccountBodies : b.doc.o.puuid.t = "str"}
          [] shape = "summoner" -> {b \in SummonerBodies : "puuid" \in DOMAIN b.doc.o}
          [] shape = "matchIDs" ->
               {b \in ListBodies : \E l \in Listings :
                    b.doc = JArr([i \in 1..Len(l) |-> JStr(l[i])])}
          [] shape = "rawMatch" ->
               {b \in DetailBodies : /\ "metadata" \in DOMAIN b.doc.o
                                      /\ b.doc.o.metadata.o.matchId = JStr("NA1_123")
                                      /\ b.doc.o.info.o.participants = JArr(<<>>)}]

\* The ways httpClient.Do returns here once a request is out, the timeout
\* apart: a 200 with a good body, a 500, or no connection.
Returns ==
    [shape \in Shapes |->
        {[got |-> TRUE, status |-> StatusOK, body |-> b] : b \in GoodBodies[shape]}
        \cup {[got |-> TRUE, status |-> StatusInternalServerError,
                body |-> [text |-> <<"{}">>, doc |-> EmptyObj]],
               [got |-> FALSE, cause |-> "connection refused"]}]

\* The client gave up after its Timeout.
TimedOut == [got |-> FALSE, cause |-> "timeout"]
\* No response: the request was never made.
NotSent == [got |-> FALSE, cause |-> "not sent"]

\* The call an operation makes at its stage, ending with resp.
StageCall(s, f, resp) ==
    CASE f.stage = "account" -> AccountLookup(s, f.region, f.name, f.tag, resp)
      [] f.stage = "summoner" -> GetSummonerByPUUID(s, f.region, f.puuid, resp)
      [] f.stage = "list" -> MatchList(s, f.region, f.puuid, f.count, resp)
      [] f.stage = "detail" -> GetMatchDetails(s, f.region, f.ids.v[f.i], resp)

\* Outbound handing over, at the loop of GetMatchHistory, the requests of all
\* the IDs still to fetch at once.
Outbound_FanOut(s, f) ==
    IF f.op = "GetMatchHistory" /\ f.stage = "detail"
    THEN {StageCall(s, [f EXCEPT !.i = j], NotSent).call.sent[1] : j \in f.i..GoLen(f.ids)}
    ELSE {StageCall(s, f, NotSent).call.sent[k] :
             k \in 1..Len(StageCall(s, f, NotSent).call.sent)}

\* The requests an operation hands to httpClient.Do at its stage: the request
\* of its makeRequest call, none when http.NewRequest fails.
Outbound(s, f) ==
    {StageCall(s, f, NotSent).call.sent[k] :
        k \in 1..Len(StageCall(s, f, NotSent).call.sent)}

Goes(f) == [frame |-> f, pc |-> "ready", result |-> NoResult]
Ends(f, val, err) == [frame |-> f, pc |-> "done", result |-> Returned(val, err)]

\* Where an operation stands once the call of its stage returned r.
Advance(f, r) ==
    CASE f.stage = "account" ->
           IF r.err # NoErr THEN Ends(f, Nil, r.err)
           ELSE Goes([f EXCEPT !.stage = "summoner", !.puuid = r.accountInfo.PUUID])
      [] f.stage = "summoner" -> Ends(f, r.val, r.err)
      [] f.stage = "list" ->
           IF r.err # NoErr THEN Ends(f, Nil, r.err)
           ELSE Goes([f EXCEPT !.stage = "detail", !.ids = r.matchIDs])
      [] f.stage = "detail" /\ f.op = "GetMatchDetails" -> Ends(f, r.val, r.err)
      [] f.stage = "detail" /\ f.op = "GetMatchHistory" ->
           Goes([f EXCEPT !.i = @ + 1, !.matches = LoopBody(@, r)])

\* The loop of GetMatchHistory from the i-th ID on.
RECURSIVE GetMatchHistory_Loop(_, _, _, _, _, _)
GetMatchHistory_Loop(s, region, matchIDs, resps, i, matches) ==
    IF i > GoLen(matchIDs) THEN matches
    ELSE GetMatchHistory_Loop(s, region, matchIDs, resps, i + 1,
             LoopBody(matches, GetMatchDetails(s, region, matchIDs.v[i], resps[i + 1])))

\* GetMatchHistory(region, puuid, count) run on its own, resps being what its
\* calls end with, in order.
GetMatchHistory(s, region, puuid, count, resps) ==
    LET list == MatchList(s, region, puuid, count, resps[1])
    IN  IF list.err # NoErr THEN Returned(Nil, list.err)
        ELSE Returned(Ref(GetMatchHistory_Loop(s, region, list.matchIDs, resps, 1, <<>>)),
                      NoErr)

ConcInit ==
    /\ svc \in Services
    /\ pc = [o \in Callers |-> "idle"]
    /\ frame = [o \in Callers |-> NoFrame]
    /\ requests = {}
    /\ steps = [o \in Callers |-> <<>>]
    /\ result = [o \in Callers |-> NoResult]

\* A caller calls an operation of the instance.
Conc_Start(o) ==
    /\ pc[o] = "idle"
    /\ \E f \in Invocations : frame' = [frame EXCEPT ![o] = f]
    /\ pc' = [pc EXCEPT ![o] = "ready"]
    /\ UNCHANGED <<svc, requests, steps, result>>

\* Conc_Returns keeping the endpoint of the call in the instance.
Conc_Returns_Caching(o, resp) ==
    \E r \in {StageCall(svc, frame[o], resp)} :
      \E next \in {Advance(frame[o], r)} :
        /\ frame' = [frame EXCEPT ![o] = next.frame]
        /\ pc' = [pc EXCEPT ![o] = next.pc]
        /\ result' = [result EXCEPT ![o] = next.result]
        /\ steps' = [steps EXCEPT ![o] = Append(@, resp)]
        /\ requests' = {m \in requests :
                           ~(m.caller = o /\ \E k \in 1..Len(r.call.sent) :
                                                 m.request = r.call.sent[k])}
        /\ svc' = [svc EXCEPT !.baseURLOverride = "http://cached"]

\* The call of o's stage returns, httpClient.Do having ended with resp.
Conc_Returns(o, resp) ==
    \E r \in {StageCall(svc, frame[o], resp)} :
      \E next \in {Advance(frame[o], r)} :
        /\ frame' = [frame EXCEPT ![o] = next.frame]
        /\ pc' = [pc EXCEPT ![o] = next.pc]
        /\ result' = [result EXCEPT ![o] = next.result]
        /\ steps' = [steps EXCEPT ![o] = Append(@, resp)]
        /\ requests' = {m \in requests :
                           ~(m.caller = o /\ \E k \in 1..Len(r.call.sent) :
                                                 m.request = r.call.sent[k])}
        /\ UNCHANGED svc

\* makeRequest up to httpClient.Do: the request is made and handed over, or
\* cannot be made and the call returns at once.
Conc_Send(o) ==
    /\ pc[o] = "ready"
    /\ frame[o].stage = "detail" => frame[o].i <= GoLen(frame[o].ids)
    /\ \E out \in {Outbound(svc, frame[o])} :
         IF out = {}
         THEN Conc_Returns(o, NotSent)
         ELSE /\ requests' = requests \cup {[caller |-> o, request |-> q] : q \in out}
              /\ pc' = [pc EXCEPT ![o] = "waiting"]
              /\ UNCHANGED <<svc, frame, steps, result>>

\* httpClient.Do returns with a response or a connection error.
Conc_Receive(o) ==
    /\ pc[o] = "waiting"
    /\ \E resp \in Returns[StageShape(frame[o].stage)] : Conc_Returns(o, resp)

\* httpClient.Do gives up: the Timeout of the client has passed.
Conc_Timeout(o) ==
    /\ pc[o] = "waiting"
    /\ svc.httpClient.Timeout > 0
    /\ Conc_Returns(o, TimedOut)

\* The end of the loop of GetMatchHistory: return matches, nil.
Conc_Return(o) ==
    /\ pc[o] = "ready"
    /\ frame[o].stage = "detail"
    /\ frame[o].i > GoLen(frame[o].ids)
    /\ result' = [result EXCEPT ![o] = Returned(Ref(frame[o].matches), NoErr)]
    /\ pc' = [pc EXCEPT ![o] = "done"]
    /\ UNCHANGED <<svc, frame, requests, steps>>

ConcNext ==
    \E o \in Callers :
        \/ Conc_Start(o)
        \/ Conc_Send(o)
        \/ Conc_Receive(o)
        \/ Conc_Timeout(o)
        \/ Conc_Return(o)

ConcSpec == ConcInit /\ [][ConcNext]_vars

\* A goroutine that can run does run, and the timer of a client with a
\* Timeout fires; nothing makes a caller call or the upstream answer.
LiveSpec ==
    /\ ConcSpec
    /\ \A o \in Callers :
          WF_vars(Conc_Send(o)) /\ WF_vars(Conc_Timeout(o)) /\ WF_vars(Conc_Return(o))

\* ------------------------------------------------- instances side by side
\*
\* Several instances are in use at once, as when tests run in parallel, each
\* against its own stub server.  Here svc holds one instance per caller, and
\* each caller runs its operations on its own instance; pc, frame, steps,
\* result and requests are as for the operations run concurrently.

\* The instances a caller can construct: one for the provider, one for each
\* of two stub servers.
FleetServices ==
    {NewRiotService("test-api-key"),
     NewRiotServiceWithBaseURL("test-api-key", "http://stub-a", [Timeout |-> 0]),
     NewRiotServiceWithBaseURL("test-api-key", "http://stub-b", [Timeout |-> 0])}

\* The operations run side by side, for two regions.
FleetInvocations ==
    {Invocation("GetSummonerByRiotID", "account", r, "TestPlayer", "NA1", "", 0, Nil) :
        r \in {"kr", "euw"}}
    \cup {Invocation("GetMatchHistory", "list", r, "", "", "test-puuid", 20, Nil) :
            r \in {"kr", "euw"}}

\* Receiver reading the endpoint override from a variable all instances
\* share, which holds the override of the instance constructed last.
Receiver_SharedOverride(o) ==
    [svc[o] EXCEPT !.baseURLOverride = svc[CHOOSE c \in Callers : c # "a"].baseURLOverride]

\* The instance a caller's operation runs on: the receiver of its methods.
Receiver(o) == svc[o]

FleetInit ==
    /\ svc \in [Callers -> FleetServices]
    /\ pc = [o \in Callers |-> "idle"]
    /\ frame = [o \in Callers |-> NoFrame]
    /\ requests = {}
    /\ steps = [o \in Callers |-> <<>>]
    /\ result = [o \in Callers |-> NoResult]

\* A caller calls an operation of its instance.
Fleet_Start(o) ==
    /\ pc[o] = "idle"
    /\ \E f \in FleetInvocations : frame' = [frame EXCEPT ![o] = f]
    /\ pc' = [pc EXCEPT ![o] = "ready"]
    /\ UNCHANGED <<svc, requests, steps, result>>

\* The call of o's stage returns, httpClient.Do having ended with resp.
Fleet_Returns(o, resp) ==
    \E r \in {StageCall(Receiver(o), frame[o], resp)} :
      \E next \in {Advance(frame[o], r)} :
        /\ frame' = [frame EXCEPT ![o] = next.frame]
        /\ pc' = [pc EXCEPT ![o] = next.pc]
        /\ result' = [result EXCEPT ![o] = next.result]
        /\ steps' = [steps EXCEPT ![o] = Append(@, resp)]
        /\ requests' = {m \in requests : m.caller # o}
        /\ UNCHANGED svc

\* makeRequest up to httpClient.Do, on the caller's instance.
Fleet_Send(o) ==
    /\ pc[o] = "ready"
    /\ frame[o].stage = "detail" => frame[o].i <= GoLen(frame[o].ids)
    /\ \E out \in {Outbound(Receiver(o), frame[o])} :
         IF out = {}
         THEN Fleet_Returns(o, NotSent)
         ELSE /\ requests' = requests \cup {[caller |-> o, request |-> q] : q \in out}
              /\ pc' = [pc EXCEPT ![o] = "waiting"]
              /\ UNCHANGED <<svc, frame, steps, result>>

\* httpClient.Do returns with a response or a connection error.
Fleet_Receive(o) ==
    /\ pc[o] = "waiting"
    /\ \E resp \in Returns[StageShape(frame[o].stage)] : Fleet_Returns(o, resp)

\* httpClient.Do gives up: the Timeout of the instance's client has passed.
Fleet_Timeout(o) ==
    /\ pc[o] = "waiting"
    /\ Receiver(o).httpClient.Timeout > 0
    /\ Fleet_Returns(o, TimedOut)

\* The end of the loop of GetMatchHistory: return matches, nil.
Fleet_Return(o) ==
    /\ pc[o] = "ready"
    /\ frame[o].stage = "detail"
    /\ frame[o].i > GoLen(frame[o].ids)
    /\ result' = [result EXCEPT ![o] = Returned(Ref(frame[o].matches), NoErr)]
    /\ pc' = [pc EXCEPT ![o] = "done"]
    /\ UNCHANGED <<svc, frame, requests, steps>>

FleetNext ==
    \E o \in Callers :
        \/ Fleet_Start(o)
        \/ Fleet_Send(o)
        \/ Fleet_Receive(o)
        \/ Fleet_Timeout(o)
        \/ Fleet_Return(o)

FleetSpec == FleetInit /\ [][FleetNext]_vars

\* =================================================================== claims

HistoryDone == pc = "done" /\ frame.op = "GetMatchHistory"
RiotIDDone == pc = "done" /\ frame.op = "GetSummonerByRiotID"

\* The IDs the provider listed, read off the document it answered with.
Listing == IF steps[1].doc.t = "arr"
           THEN [i \in 1..Len(steps[1].doc.a) |-> steps[1].doc.a[i].s]
           ELSE <<>>

\* The entries of the detail fetches of GetMatchHistory, in the order made.
Fetches == Tail(steps)

\* The Match a detail document normalizes to.
Normalized(doc) == ConvertMatch(Unmarshal("rawMatch", doc).val)

\* The Matches of the fetches that succeeded, in the order of the fetches.
RECURSIVE Survivors(_)
Survivors(fs) ==
    IF fs = <<>> THEN <<>>
    ELSE IF Head(fs).ok THEN <<Normalized(Head(fs).doc)>> \o Survivors(Tail(fs))
    ELSE Survivors(Tail(fs))

C2_AllSucceed ==
    (HistoryDone /\ steps[1].ok /\ \A i \in 2..Len(steps) : steps[i].ok) =>
        /\ result.err = NoErr
        /\ result.val # Nil
        /\ Len(result.val.v) = Len(Listing)
        /\ \A i \in 1..Len(Listing) :
             /\ steps[i + 1].key = Listing[i]
             /\ result.val.v[i] = Normalized(steps[i + 1].doc)

\* C2 witness: two IDs listed, both fetched, answered with different Matches.
C2_Witness ==
    /\ HistoryDone /\ steps[1].ok
    /\ Len(Listing) = 2
    /\ steps[2].ok /\ steps[3].ok
    /\ Len(result.val.v) = 2
    /\ result.val.v[1].MatchID = "NA1_124" /\ result.val.v[2].MatchID = "NA1_123"

IsDetailRequest(request) ==
    \E i \in 1..Len(request.url) : request.url[i] = "/lol/match/v5/matches/"

\* C3: when the listing call fails, GetMatchHistory returns no matches (a nil
\* slice) and a non-nil error, and makes no detail call and no detail request.
C3_ListingFails ==
    (HistoryDone /\ ~steps[1].ok) =>
        /\ result.val = Nil
        /\ result.err # NoErr
        /\ Len(steps) = 1
        /\ \A i \in 1..Len(requests) : ~IsDetailRequest(requests[i])

\* C3 witness: the listing request was sent and answered, and the call failed.
C3_Witness ==
    /\ HistoryDone /\ ~steps[1].ok
    /\ Len(requests) = 1
    /\ steps[1].doc.t = "arr"
    /\ result.err # NoErr

\* C4: GetMatchHistory returns a non-nil error only if the listing call
\* failed; when the listing succeeds and every detail fetch fails, it returns
\* an empty sequence and a nil error.
C4_ErrorOnlyFromListing ==
    HistoryDone =>
        /\ result.err # NoErr => ~steps[1].ok
        /\ (steps[1].ok /\ \A i \in 2..Len(steps) : ~steps[i].ok) =>
               result = Returned(Ref(<<>>), NoErr)

\* C4 witness: two IDs listed and both detail fetches failed.
C4_Witness ==
    /\ HistoryDone /\ steps[1].ok
    /\ Len(steps) = 3
    /\ ~steps[2].ok /\ ~steps[3].ok
    /\ result.err = NoErr

IsSummonerRequest(request) ==
    \E i \in 1..Len(request.url) :
        request.url[i] = "/lol/summoner/v4/summoners/by-puuid/"

\* C5: when the account lookup fails, GetSummonerByRiotID returns no Summoner
\* and a non-nil error, and never makes the summoner-by-puuid call: no request
\* follows the account request.
C5_AccountFails ==
    (RiotIDDone /\ ~steps[1].ok) =>
        /\ result.val = Nil
        /\ result.err # NoErr
        /\ Len(steps) = 1
        /\ Len(requests) <= 1
        /\ \A i \in 1..Len(requests) : ~IsSummonerRequest(requests[i])

\* C5 witness: the account request was sent and the lookup failed.
C5_Witness ==
    /\ RiotIDDone /\ ~steps[1].ok
    /\ Len(requests) = 1
    /\ result.err # NoErr

\* The context each step of GetSummonerByRiotID puts in front of a request error.
StepContext(name) == IF name = "account" THEN "failed to get account info: "
                     ELSE "failed to get summoner: "

\* C6: in GetSummonerByRiotID the failure of a step ends the operation at that
\* step, and the caller gets no Summoner and the error of that step as the
\* step produced it: the step's context in front of the untouched request
\* error, and nothing added after the step.
C6_StepErrorUnchanged ==
    (RiotIDDone /\ ~steps[Len(steps)].ok) =>
        LET failed == steps[Len(steps)]
        IN  /\ result.val = Nil
            /\ result.err # NoErr
            /\ result.err = failed.err
            /\ result.err = Wrap(StepContext(failed.step), failed.cause)
            /\ \A i \in 1..(Len(steps) - 1) : steps[i].ok

\* C6 witness: the account lookup succeeded and the summoner lookup failed.
C6_Witness ==
    /\ RiotIDDone
    /\ Len(steps) = 2
    /\ steps[1].ok /\ ~steps[2].ok
    /\ result.err # NoErr

\* ------------------------------------------------ records and their payloads

\* The member of a document under a key, JNull when there is none.
Sub(doc, key) == IF doc.t = "obj" THEN Member(doc, key) ELSE JNull

\* The value a scalar document carries.
Carried(v) == CASE v.t = "str" -> v.s
                [] v.t = "num" -> v.n
                [] v.t = "bool" -> v.b

\* rec holds, field by field, what doc carries under the field's key, and the
\* zero value of the field where doc carries nothing.
FromPayload(fields, doc, rec) ==
    \A k \in DOMAIN fields :
        rec[fields[k].go] = IF Sub(doc, k).t = "null" THEN ZeroOf(fields[k].kind)
                            ELSE Carried(Sub(doc, k))

\* doc carries a value for every field.
Supplies(fields, doc) == \A k \in DOMAIN fields : Sub(doc, k).t # "null"

\* The instant t in milliseconds since the epoch.
Millis(t) == t.sec * 1000 + t.nsec \div 1000000

\* The participant documents of a match document.
PayloadParticipants(doc) ==
    IF Sub(Sub(doc, "info"), "participants").t = "arr"
    THEN Sub(Sub(doc, "info"), "participants").a ELSE <<>>

\* match is what the match document doc carries.
MatchFromPayload(doc, match) ==
    /\ FromPayload(MetadataFields, Sub(doc, "metadata"), match)
    /\ FromPayload([k \in DOMAIN InfoFields \ {"gameCreation"} |-> InfoFields[k]],
                   Sub(doc, "info"), match)
    /\ Millis(match.GameCreation) =
          (IF Sub(Sub(doc, "info"), "gameCreation").t = "null" THEN 0
           ELSE Sub(Sub(doc, "info"), "gameCreation").n)
    /\ match.Participants # Nil
    /\ Len(match.Participants.v) = Len(PayloadParticipants(doc))
    /\ \A i \in 1..Len(PayloadParticipants(doc)) :
          FromPayload(ParticipantFields, PayloadParticipants(doc)[i],
                      match.Participants.v[i])

\* doc carries a value for every field of a Match and of its Participants.
SuppliesMatch(doc) ==
    /\ Supplies(MetadataFields, Sub(doc, "metadata"))
    /\ Supplies(InfoFields, Sub(doc, "info"))
    /\ Sub(Sub(doc, "info"), "participants").t = "arr"
    /\ \A i \in 1..Len(PayloadParticipants(doc)) :
          Supplies(ParticipantFields, PayloadParticipants(doc)[i])

ReturnsSummoner ==
    /\ pc = "done" /\ frame.op \in {"GetSummonerByRiotID", "GetSummonerByPUUID"}
    /\ result.val # Nil
ReturnsMatch == pc = "done" /\ frame.op = "GetMatchDetails" /\ result.val # Nil
ReturnsMatches == HistoryDone /\ result.val # Nil

\* The documents of the detail fetches that succeeded, in the order fetched.
RECURSIVE FetchedDocs(_)
FetchedDocs(fs) ==
    IF fs = <<>> THEN <<>>
    ELSE IF Head(fs).ok THEN <<Head(fs).doc>> \o FetchedDocs(Tail(fs))
    ELSE FetchedDocs(Tail(fs))

\* C7 (as claimed): every Match that GetMatchHistory or GetMatchDetails returns
\* has a non-empty MatchID.
C7_NonEmptyMatchID ==
    /\ ReturnsMatch => result.val.v.MatchID # ""
    /\ ReturnsMatches => \A i \in 1..Len(result.val.v) : result.val.v[i].MatchID # ""

\* C8 (as claimed): every record returned comes from a successful call whose
\* payload supplied every field of it; no field holds a default put there for
\* data the upstream left out.
C8_FullyMaterialized ==
    /\ ReturnsSummoner =>
          steps[Len(steps)].ok /\ Supplies(SummonerFields, steps[Len(steps)].doc)
    /\ ReturnsMatch => steps[1].ok /\ SuppliesMatch(steps[1].doc)
    /\ ReturnsMatches =>
          /\ Len(result.val.v) = Len(FetchedDocs(Fetches))
          /\ \A i \in 1..Len(FetchedDocs(Fetches)) : SuppliesMatch(FetchedDocs(Fetches)[i])

\* C8 (amended): no record returned stands in for a failure.  Every Summoner
\* or Match returned was decoded from the payload of a call that succeeded and
\* holds, field by field, what that payload carries, a field the payload left
\* out holding the zero value of its type; a call that failed contributes no
\* record.
C8_NoFailureDefaults ==
    /\ ReturnsSummoner =>
          /\ steps[Len(steps)].ok
          /\ FromPayload(SummonerFields, steps[Len(steps)].doc, result.val.v)
    /\ ReturnsMatch =>
          /\ steps[1].ok
          /\ MatchFromPayload(steps[1].doc, result.val.v)
    /\ ReturnsMatches =>
          /\ Len(result.val.v) = Len(FetchedDocs(Fetches))
          /\ \A i \in 1..Len(FetchedDocs(Fetches)) :
                MatchFromPayload(FetchedDocs(Fetches)[i], result.val.v[i])

\* C8 witness: GetMatchHistory returned one Match for two listed IDs, the
\* other fetch having failed, and the Match came from a payload without a
\* matchId.
C8_Witness ==
    /\ ReturnsMatches /\ steps[1].ok
    /\ Len(Fetches) = 2 /\ Len(result.val.v) = 1
    /\ Fetches[2].ok /\ Fetches[2].doc = EmptyObj
    /\ result.val.v[1].MatchID = ""

\* ---------------------------------------------------- the errors of makeRequest

MakeRequestDone == pc = "done" /\ frame.op = "makeRequest"

\* The leading digits of a text.
RECURSIVE DigitRun(_)
DigitRun(t) == IF t = <<>> \/ ~IsDigit(Head(t)) THEN <<>>
               ELSE <<Head(t)>> \o DigitRun(Tail(t))

\* What a caller reads off an error message: its kind by how it starts, and
\* for an upstream error the status code (the digits after the opening words)
\* and the body (what follows the colon and the space after the code).
IsTransportError(err) ==
    err # NoErr /\ err[1] \in {"failed to create request: ", "failed to execute request: "}
IsDecodeError(err) == err # NoErr /\ err[1] = "failed to decode response: "
IsUpstreamError(err) ==
    /\ err # NoErr /\ err[1] = "API request failed with status "
    /\ LET code == DigitRun(Tail(err))
       IN  /\ code # <<>>
           /\ Len(err) >= 1 + Len(code) + 2
           /\ err[2 + Len(code)] = ":" /\ err[3 + Len(code)] = " "
StatusOf(err) == Atoi(DigitRun(Tail(err)))
BodyOf(err) == SubSeq(err, 4 + Len(DigitRun(Tail(err))), Len(err))

Is2xx(status) == status >= 200 /\ status <= 299

\* C9: makeRequest, answered with a status outside 200..299, returns an
\* upstream error from whose message the caller reads back that status code and
\* the response body, and leaves the target as it was declared.
C9_UpstreamError ==
    (MakeRequestDone /\ requests # <<>> /\ frame.resp.got /\ ~Is2xx(frame.resp.status)) =>
        /\ IsUpstreamError(result.err)
        /\ StatusOf(result.err) = frame.resp.status
        /\ BodyOf(result.err) = frame.resp.body.text
        /\ result.val = Zero(frame.shape)

\* C9 witness: a 429 whose body starts with a digit.
C9_Witness ==
    /\ MakeRequestDone /\ requests # <<>> /\ frame.resp.got
    /\ frame.resp.status = 429
    /\ frame.resp.body.text # <<>> /\ IsDigit(frame.resp.body.text[1])
    /\ StatusOf(result.err) = 429

\* C10: a failing makeRequest call fails with exactly one of three kinds of
\* error, which the caller can tell apart: a transport error exactly when no
\* response was obtained; otherwise an upstream error whenever the status is not
\* a success status (so for every status outside 200..299), whatever the body;
\* and a decode error only when the body does not parse against the expected
\* shape, which every 200 response with such a body gets.
C10_ErrorKinds ==
    (MakeRequestDone /\ result.err # NoErr) =>
        LET err == result.err
            noResponse == requests = <<>> \/ ~frame.resp.got
            parses == Decode(frame.shape, frame.resp.body.doc).err = NoErr
        IN  /\ Cardinality({k \in {"transport", "upstream", "decode"} :
                  \/ k = "transport" /\ IsTransportError(err)
                  \/ k = "upstream" /\ IsUpstreamError(err)
                  \/ k = "decode" /\ IsDecodeError(err)}) = 1
            /\ IsTransportError(err) <=> noResponse
            /\ (~noResponse /\ ~Is2xx(frame.resp.status)) => IsUpstreamError(err)
            /\ IsUpstreamError(err) => frame.resp.status # StatusOK
            /\ IsDecodeError(err) => ~parses
            /\ (~noResponse /\ frame.resp.status = StatusOK /\ ~parses) => IsDecodeError(err)

\* C10 witness: a 404 whose body does not parse failed as an upstream error.
C10_Witness ==
    /\ MakeRequestDone /\ requests # <<>> /\ frame.resp.got
    /\ frame.resp.status = 404
    /\ Decode(frame.shape, frame.resp.body.doc).err # NoErr
    /\ IsUpstreamError(result.err)

\* ------------------------------------------------------------ requests made

\* The listed IDs a match URL can be made of, in listing order.
Sendable(ids) == SelectSeq(ids, LAMBDA id : id # BadEscape)

\* The ID a detail request asks for.
RequestedID(request) == request.url[Len(request.url)]

\* C11 as stated: GetSummonerByRiotID issues at most 2 requests, and
\* GetMatchHistory issues exactly 1 request when the listing fails and exactly
\* 1 + K requests when the listing returns K IDs.
C11_ExactRequestCounts ==
    /\ RiotIDDone => Len(requests) <= 2
    /\ HistoryDone =>
          Len(requests) = IF steps[1].ok THEN 1 + Len(Listing) ELSE 1

\* C11: no call is retried.  Every makeRequest call issues at most one
\* request, and none when the URL cannot be parsed; so GetSummonerByRiotID
\* issues at most 2 requests, and GetMatchHistory issues at most 1 request when
\* the listing fails (exactly 1 when the listing URL parses) and, when the
\* listing returns K IDs, one request for each listed ID whose URL parses, in
\* listing order, each entry of the listing requested at most once: 1 + K
\* requests when every listed ID can be put in a URL.
C11_NoRetry ==
    /\ frame.op = "makeRequest" => Len(requests) <= 1
    /\ frame.op \in {"GetSummonerByPUUID", "GetMatchDetails", "GetSummonerByRiotID",
                     "GetMatchHistory"} => Len(requests) <= Len(steps)
    /\ RiotIDDone => Len(requests) <= 2
    /\ (HistoryDone /\ ~steps[1].ok) =>
          Len(requests) = IF frame.puuid = BadEscape THEN 0 ELSE 1
    /\ (HistoryDone /\ steps[1].ok) =>
          /\ Len(requests) = 1 + Len(Sendable(Listing))
          /\ Len(requests) <= 1 + Len(Listing)
          /\ \A j \in 1..Len(Sendable(Listing)) :
                /\ IsDetailRequest(requests[j + 1])
                /\ RequestedID(requests[j + 1]) = Sendable(Listing)[j]
          /\ Sendable(Listing) = Listing => Len(requests) = 1 + Len(Listing)

\* C11 witness: two IDs listed, the fetch of the first failed without a
\* response, the second was fetched, and three requests were issued in all.
C11_Witness ==
    /\ HistoryDone /\ steps[1].ok
    /\ Len(Listing) = 2
    /\ ~Fetches[1].ok /\ Fetches[2].ok
    /\ Len(requests) = 3
    /\ RequestedID(requests[2]) = Listing[1]
    /\ RequestedID(requests[3]) = Listing[2]

\* ------------------------------------------------------------------ routing

\* The platform hosts as documented, code by code.
DocumentedPlatformHost(region) ==
    CASE region = "na" -> "na1.api.riotgames.com"
      [] region = "euw" -> "euw1.api.riotgames.com"
      [] region = "eune" -> "eun1.api.riotgames.com"
      [] region = "kr" -> "kr.api.riotgames.com"
      [] region = "br" -> "br1.api.riotgames.com"
      [] region = "jp" -> "jp1.api.riotgames.com"
      [] region = "ru" -> "ru.api.riotgames.com"
      [] region = "oce" -> "oc1.api.riotgames.com"
      [] region = "tr" -> "tr1.api.riotgames.com"
      [] region = "lan" -> "la1.api.riotgames.com"
      [] region = "las" -> "la2.api.riotgames.com"
      [] OTHER -> "na1.api.riotgames.com"

\* C13: getRegionalURL returns, for each of the 11 region codes, its fixed
\* platform host, and for every other string (the empty string and
\* differently cased codes included) the na host, with no error.
C13_PlatformHost ==
    (pc = "done" /\ frame.op = "getRegionalURL") =>
        /\ result.val = DocumentedPlatformHost(frame.region)
        /\ result.err = NoErr
        /\ frame.region \notin {"na", "euw", "eune", "kr", "br", "jp", "ru", "oce",
                                "tr", "lan", "las"} =>
               result.val = "na1.api.riotgames.com"

\* C13 witness: the lookup of a differently cased code returned the na host.
C13_Witness ==
    /\ pc = "done" /\ frame.op = "getRegionalURL"
    /\ frame.region = "Kr"
    /\ result.val = "na1.api.riotgames.com"

AmericasHost == "americas.api.riotgames.com"
EuropeHost == "europe.api.riotgames.com"
AsiaHost == "asia.api.riotgames.com"
SeaHost == "sea.api.riotgames.com"

\* C14: getMatchRegionalURL maps na, br, lan, las to the americas host, euw,
\* eune, tr, ru to the europe host, kr, jp to the asia host, oce to the sea
\* host and every other string to the americas host; its result is always one
\* of these four hosts.
C14_ContinentalHost ==
    (pc = "done" /\ frame.op = "getMatchRegionalURL") =>
        /\ result.val = (CASE frame.region \in {"na", "br", "lan", "las"} -> AmericasHost
                           [] frame.region \in {"euw", "eune", "tr", "ru"} -> EuropeHost
                           [] frame.region \in {"kr", "jp"} -> AsiaHost
                           [] frame.region = "oce" -> SeaHost
                           [] OTHER -> AmericasHost)
        /\ result.val \in {AmericasHost, EuropeHost, AsiaHost, SeaHost}
        /\ result.err = NoErr

\* C14 witness: the empty region was looked up and gave the americas host.
C14_Witness ==
    /\ pc = "done" /\ frame.op = "getMatchRegionalURL"
    /\ frame.region = ""
    /\ result.val = AmericasHost

\* ------------------------------------------------------------ normalization

\* A direct GetMatchDetails call returned a Match; the document it was
\* answered with.
MatchDoc == steps[1].doc

\* C15: the Match that GetMatchDetails returns has as many Participants as
\* the payload has participants, the i-th Participant holding field by field
\* what the i-th participant of the payload carries (provider order kept); a
\* payload with zero participants gives an empty Participants sequence that is
\* present, not nil.
C15_ParticipantsPreserved ==
    ReturnsMatch =>
        /\ result.val.v.Participants # Nil
        /\ Len(result.val.v.Participants.v) = Len(PayloadParticipants(MatchDoc))
        /\ \A i \in 1..Len(PayloadParticipants(MatchDoc)) :
              FromPayload(ParticipantFields, PayloadParticipants(MatchDoc)[i],
                          result.val.v.Participants.v[i])
        /\ PayloadParticipants(MatchDoc) = <<>> =>
              result.val.v.Participants = Ref(<<>>)

\* C15 witness: a payload with two different participants was normalized, the
\* sparse one first.
C15_Witness ==
    /\ ReturnsMatch
    /\ PayloadParticipants(MatchDoc) = <<SparseParticipantDoc, ParticipantDoc>>
    /\ result.val.v.Participants.v[1].PUUID = "other-puuid"
    /\ result.val.v.Participants.v[2].PUUID = "test-puuid"

\* C15 witness of the empty case: a payload with an empty participants array
\* was normalized.
C15_EmptyWitness ==
    /\ ReturnsMatch
    /\ Sub(Sub(MatchDoc, "info"), "participants") = JArr(<<>>)
    /\ result.val.v.Participants = Ref(<<>>)

\* The gameCreation of a match document, 0 when it has none.
PayloadCreation(doc) ==
    IF Sub(Sub(doc, "info"), "gameCreation").t = "num"
    THEN Sub(Sub(doc, "info"), "gameCreation").n ELSE 0

\* C16: the GameCreation of the Match that GetMatchDetails returns is the
\* instant g milliseconds from the epoch, g being the gameCreation of the
\* payload: a well-formed instant that, expressed back in epoch milliseconds,
\* equals g.
C16_CreationRoundTrip ==
    ReturnsMatch =>
        /\ Millis(result.val.v.GameCreation) = PayloadCreation(MatchDoc)
        /\ result.val.v.GameCreation.nsec >= 0
        /\ result.val.v.GameCreation.nsec < 1000000000

\* C16 witness: a gameCreation before the epoch and off a whole second was
\* normalized.
C16_Witness ==
    /\ ReturnsMatch
    /\ PayloadCreation(MatchDoc) = -1001
    /\ result.val.v.GameCreation = [sec |-> -2, nsec |-> 999000000]

\* -------------------------------------------------------- the matches handler

HandlerDone == pc = "done" /\ frame.op = "Handler.GetMatchesByRiotID"

\* The string a request body gives for a key, "" when it gives none.
Given(key) == IF Sub(frame.body, key).t = "str" THEN Sub(frame.body, key).s ELSE ""

\* The body is a JSON object whose count, if any, is a number.
WellTyped == frame.body.t = "obj" /\ Sub(frame.body, "count").t \in {"null", "num"}

\* The calls of GetMatchHistory the handler made.
HistoryCalls == {i \in 1..Len(steps) : steps[i].step = "GetMatchHistory"}

\* C19: the count the matches handler passes to GetMatchHistory is 20 when the
\* request's count is absent, zero or negative, and the request's count itself
\* when it is positive, however large.
C19_DefaultCount ==
    HandlerDone =>
        \A i \in HistoryCalls :
            steps[i].count =
                IF Sub(frame.body, "count").t = "null" THEN 20
                ELSE IF Sub(frame.body, "count").n <= 0 THEN 20
                ELSE Sub(frame.body, "count").n

\* C19 witness: a request with count 100 reached GetMatchHistory with 100.
C19_Witness ==
    /\ HandlerDone
    /\ Sub(frame.body, "count") = JNum(100)
    /\ HistoryCalls # {}
    /\ \A i \in HistoryCalls : steps[i].count = 100

\* C19 witness of the default: a request with a negative count reached
\* GetMatchHistory with 20.
C19_DefaultWitness ==
    /\ HandlerDone
    /\ Sub(frame.body, "count") = JNum(-5)
    /\ HistoryCalls # {}
    /\ \A i \in HistoryCalls : steps[i].count = 20

\* C20: on a well-typed body the matches handler picks the player this way.
\* With a region and a puuid it calls GetMatchHistory with that puuid and makes
\* no other call, whatever gameName and tagLine hold.  With a region, no puuid
\* and both gameName and tagLine it calls GetSummonerByRiotID first, and when
\* that returns a Summoner and no error it calls GetMatchHistory with the
\* Summoner's PUUID.
\* With no region, or with neither a puuid nor both gameName and tagLine, it
\* answers 400 and calls nothing.
C20_IdentityChoice ==
    (HandlerDone /\ WellTyped) =>
        /\ (Given("region") # "" /\ Given("puuid") # "") =>
              /\ Len(steps) = 1
              /\ steps[1].step = "GetMatchHistory"
              /\ steps[1].region = Given("region")
              /\ steps[1].puuid = Given("puuid")
        /\ (Given("region") # "" /\ Given("puuid") = ""
              /\ Given("gameName") # "" /\ Given("tagLine") # "") =>
              /\ Len(steps) >= 1
              /\ steps[1] = [step |-> "GetSummonerByRiotID", region |-> Given("region"),
                             gameName |-> Given("gameName"), tagLine |-> Given("tagLine")]
              /\ (frame.service.summoner.val = Nil \/ frame.service.summoner.err # NoErr) =>
                    Len(steps) = 1
              /\ (frame.service.summoner.val # Nil /\ frame.service.summoner.err = NoErr) =>
                    /\ Len(steps) = 2
                    /\ steps[2].step = "GetMatchHistory"
                    /\ steps[2].region = Given("region")
                    /\ steps[2].puuid = frame.service.summoner.val.v.PUUID
        /\ (Given("region") = ""
              \/ (Given("puuid") = "" /\ (Given("gameName") = "" \/ Given("tagLine") = ""))) =>
              /\ result.val.status = StatusBadRequest
              /\ steps = <<>>

\* C20 witness: a request with a region, a puuid, a gameName and a tagLine was
\* served with the single call GetMatchHistory on the puuid.
C20_Witness ==
    /\ HandlerDone /\ WellTyped
    /\ Given("region") = "kr" /\ Given("puuid") = "test-puuid"
    /\ Given("gameName") = "TestPlayer" /\ Given("tagLine") = "NA1"
    /\ Len(steps) = 1
    /\ steps[1].step = "GetMatchHistory" /\ steps[1].puuid = "test-puuid"

\* C20 witness of the lookup: a request with a Riot ID and no puuid was served
\* with GetSummonerByRiotID, then GetMatchHistory on the PUUID it returned.
C20_LookupWitness ==
    /\ HandlerDone /\ WellTyped
    /\ Given("puuid") = ""
    /\ Len(steps) = 2
    /\ steps[1].step = "GetSummonerByRiotID"
    /\ steps[2].step = "GetMatchHistory" /\ steps[2].puuid = "riot-puuid"

\* ------------------------------------------------ calls in flight and in time

Running(o) == pc[o] \in {"ready", "waiting"}

\* C12 (as claimed): whichever constructor made the instance, every operation
\* that was called eventually returns, even if the upstream never answers.
C12_EventuallyReturns ==
    \A o \in Callers : Running(o) ~> (pc[o] = "done")

\* C12 for the instances whose client has a Timeout (those of NewRiotService):
\* every operation that was called eventually returns.
C12_ReturnsUnderTimeout ==
    \A o \in Callers : (Running(o) /\ svc.httpClient.Timeout > 0) ~> (pc[o] = "done")

\* The requests of an operation that are in flight.
InFlight(o) == {m \in requests : m.caller = o}

\* C17: an operation has at most one request in flight, and only while it
\* waits in httpClient.Do.  In GetMatchHistory the listing request is in
\* flight before any call has completed, and the request of the i-th listed ID
\* is in flight only when the listing call and the fetches of the i - 1 IDs
\* before it have all completed or failed.
C17_Sequential ==
    \A o \in Callers :
        /\ Cardinality(InFlight(o)) <= 1
        /\ InFlight(o) # {} => pc[o] = "waiting"
        /\ \A m \in InFlight(o) :
              frame[o].op = "GetMatchHistory" =>
                  IF IsDetailRequest(m.request)
                  THEN /\ frame[o].stage = "detail"
                       /\ Len(steps[o]) = frame[o].i
                       /\ RequestedID(m.request) = frame[o].ids.v[frame[o].i]
                  ELSE /\ frame[o].stage = "list"
                       /\ steps[o] = <<>>

\* C17 witness: the request of the second listed ID of a GetMatchHistory is in
\* flight, its listing and its first fetch done, while the other caller has a
\* request in flight too.
C17_Witness ==
    /\ frame["a"].op = "GetMatchHistory"
    /\ InFlight("a") # {}
    /\ frame["a"].i = 2 /\ Len(steps["a"]) = 2
    /\ \A m \in InFlight("a") : RequestedID(m.request) = "NA1_124"
    /\ InFlight("b") # {}

\* What the operation of frame f returns when run on its own, its calls ending
\* with resps.
RunAlone(s, f, resps) ==
    CASE f.op = "GetSummonerByRiotID" ->
           GetSummonerByRiotID(s, f.region, f.name, f.tag, resps)
      [] f.op = "GetSummonerByPUUID" ->
           LET r == GetSummonerByPUUID(s, f.region, f.puuid, resps[1])
           IN  Returned(r.val, r.err)
      [] f.op = "GetMatchDetails" ->
           LET r == GetMatchDetails(s, f.region, f.ids.v[1], resps[1])
           IN  Returned(r.val, r.err)
      [] f.op = "GetMatchHistory" ->
           GetMatchHistory(s, f.region, f.puuid, f.count, resps)

ResultsAsAlone ==
    \A o \in Callers :
        pc[o] = "done" => result[o] = RunAlone(svc, frame[o], steps[o])

\* C18: however the steps of the operations running on one instance
\* interleave, each operation returns what it returns when run on its own
\* with its calls ending the same way, and no step changes the instance: its
\* apiKey, its client and its endpoint override stay as constructed.
C18_Isolation ==
    /\ []ResultsAsAlone
    /\ [][svc' = svc]_vars

\* C18 witness: a GetSummonerByRiotID ran from its start to its end, both
\* calls answered, while a GetMatchHistory of the other caller was in the
\* middle of its loop, a request in flight.
C18_Witness ==
    /\ frame["a"].op = "GetMatchHistory"
    /\ pc["a"] = "waiting" /\ Len(steps["a"]) = 2
    /\ pc["b"] = "done" /\ frame["b"].op = "GetSummonerByRiotID"
    /\ Len(steps["b"]) = 2 /\ result["b"].val # Nil
    /\ result["b"] = RunAlone(svc, frame["b"], steps["b"])

\* ------------------------------------------------- errors and bad requests

SummonerHandlerDone == pc = "done" /\ frame.op = "Handler.GetSummonerByRiotID"
HandlerFinished == HandlerDone \/ SummonerHandlerDone

\* What the riotService answered to a call of the handler.
AnswerTo(call) == IF call.step = "GetSummonerByRiotID" THEN frame.service.summoner
                  ELSE frame.service.history

\* C21: when a call a handler makes on its riotService returns an error, of
\* whatever kind (transport, upstream status, decode, or the service's own),
\* the handler makes no further call and answers 500 with the text of that
\* error; in the matches handler a failed GetSummonerByRiotID lookup ends the
\* request with 500 and GetMatchHistory is not called.
C21_ErrorsSurfaceAs500 ==
    HandlerFinished =>
        /\ \A i \in 1..Len(steps) :
              AnswerTo(steps[i]).err # NoErr =>
                  /\ i = Len(steps)
                  /\ ~result.val.panicked
                  /\ result.val.status = StatusInternalServerError
                  /\ result.val.body = AnswerTo(steps[i]).err
        /\ (HandlerDone /\ steps # <<>> /\ steps[1].step = "GetSummonerByRiotID"
               /\ frame.service.summoner.err # NoErr) =>
              /\ result.val.status = StatusInternalServerError
              /\ HistoryCalls = {}

\* C21 witness: in the matches handler the lookup failed with an upstream 404
\* and the request ended with 500, the lookup being the only call.
C21_Witness ==
    /\ HandlerDone
    /\ Len(steps) = 1 /\ steps[1].step = "GetSummonerByRiotID"
    /\ frame.service.summoner.err =
          Wrap("failed to get account info: ", StatusError(404, <<"{}">>))
    /\ result.val.status = StatusInternalServerError

\* C21 witness of the other handler: the summoner handler answered 500 to a
\* lookup that failed to decode.
C21_SummonerWitness ==
    /\ SummonerHandlerDone
    /\ Len(steps) = 1
    /\ frame.service.summoner.err # NoErr
    /\ IsDecodeError(Tail(frame.service.summoner.err))
    /\ result.val.status = StatusInternalServerError

\* The string the body of a summoner request gives for a key, "" when it
\* gives none.
Supplied(key) ==
    IF Sub(frame.body.doc, key).t = "str" THEN Sub(frame.body.doc, key).s ELSE ""

\* The body is one JSON value and nothing else.
ValidJSON(body) == body.doc.t # "invalid" /\ ~body.trailing

\* C22 (as claimed): the summoner handler answers 400 and calls nothing when
\* the request body is not valid JSON or when any of region, gameName, tagLine
\* is missing or empty; it calls GetSummonerByRiotID, with exactly the three
\* values supplied, only when all three are non-empty.
C22_RejectsInvalidJSON ==
    SummonerHandlerDone =>
        /\ (~ValidJSON(frame.body) \/ Supplied("region") = ""
               \/ Supplied("gameName") = "" \/ Supplied("tagLine") = "") =>
              /\ result.val.status = StatusBadRequest
              /\ steps = <<>>
        /\ steps # <<>> =>
              /\ steps = <<[step |-> "GetSummonerByRiotID", region |-> Supplied("region"),
                            gameName |-> Supplied("gameName"),
                            tagLine |-> Supplied("tagLine")]>>
              /\ Supplied("region") # "" /\ Supplied("gameName") # ""
              /\ Supplied("tagLine") # ""

\* What holds of the summoner handler in place of C22: it answers 400 and
\* calls nothing when the body does not start with a JSON value or when any
\* of region, gameName, tagLine is missing, empty or not a string; when the
\* first JSON value of the body gives all three, it calls GetSummonerByRiotID
\* once with exactly these values, whatever follows that value in the body.
C22_Validation ==
    SummonerHandlerDone =>
        /\ (frame.body.doc.t = "invalid" \/ Supplied("region") = ""
               \/ Supplied("gameName") = "" \/ Supplied("tagLine") = "") =>
              /\ result.val.status = StatusBadRequest
              /\ steps = <<>>
        /\ (Supplied("region") # "" /\ Supplied("gameName") # ""
               /\ Supplied("tagLine") # "") =>
              steps = <<[step |-> "GetSummonerByRiotID", region |-> Supplied("region"),
                         gameName |-> Supplied("gameName"),
                         tagLine |-> Supplied("tagLine")]>>

\* A body that is a complete request followed by other bytes was served with
\* a call of GetSummonerByRiotID.
C22_TrailingWitness ==
    /\ SummonerHandlerDone
    /\ frame.body.trailing
    /\ steps # <<>>
    /\ steps[1].region = "na" /\ steps[1].gameName = "TestPlayer"
    /\ steps[1].tagLine = "NA1"

\* ------------------------------------------------------------------ dispatch

RouterDone == pc = "done" /\ frame.op = "Router.ServeHTTP"

\* The handler registered on each of the three paths.
Registered ==
    [p \in {<<"health">>, <<"api", "v1", "summoner">>, <<"api", "v1", "matches">>} |->
        CASE p = <<"health">> -> "HealthCheck"
          [] p = <<"api", "v1", "summoner">> -> "GetSummonerByRiotID"
          [] p = <<"api", "v1", "matches">> -> "GetMatchesByRiotID"]

\* The requests the router hands to a handler are the POST requests on the
\* three paths, each handed to the handler of its path; another method on one
\* of these paths is answered 405 and reaches no handler.
DispatchesPostOnly ==
    /\ result.val.handler # "none" <=>
          (frame.method = "POST" /\ frame.path \in DOMAIN Registered)
    /\ result.val.handler # "none" => result.val.handler = Registered[frame.path]
    /\ (frame.path \in DOMAIN Registered /\ frame.method # "POST") =>
          result.val.status = StatusMethodNotAllowed

Unclean(path) ==
    \E i \in 1..Len(path) : path[i] \in {".", ".."} \/ (path[i] = "" /\ i < Len(path))

C23_RedirectWitness ==
    /\ RouterDone
    /\ frame.method = "POST" /\ frame.path = <<"", "health">>
    /\ result.val.status = StatusMovedPermanently

\* ------------------------------------------------------------ configuration

LoadConfigDone == pc = "done" /\ frame.op = "LoadConfig"

\* The value a variable has for LoadConfig: the one of the process
\* environment when the variable is set there, else the one the .env file
\* gives it, else none.
Configured(key) ==
    IF frame.env[key] # Nil THEN frame.env[key].v
    ELSE IF frame.file # Nil /\ frame.file.v[key] # Nil THEN frame.file.v[key].v
    ELSE ""

\* C24: LoadConfig always returns a configuration.  A missing API key does
\* not stop it: the key is returned empty (and the warning is logged).  The
\* port is the value of PORT when PORT is set and non-empty, the process
\* environment coming before the .env file, and "8081" when PORT is not set or
\* empty.
C24_LoadConfig ==
    LoadConfigDone =>
        /\ result.val # Nil /\ result.err = NoErr
        /\ result.val.v.RiotAPIKey = Configured("RIOT_API_KEY")
        /\ Configured("RIOT_API_KEY") = "" =>
              result.val.v.RiotAPIKey = "" /\ frame.warned
        /\ (frame.env.PORT # Nil /\ frame.env.PORT.v # "") =>
              result.val.v.ServerPort = frame.env.PORT.v
        /\ Configured("PORT") # "" => result.val.v.ServerPort = Configured("PORT")
        /\ Configured("PORT") = "" => result.val.v.ServerPort = "8081"
        /\ (frame.env.PORT = Nil /\ frame.file = Nil) => result.val.v.ServerPort = "8081"

\* C24 witness: with no variable set and no .env file LoadConfig returned a
\* configuration with an empty key and the port 8081.
C24_Witness ==
    /\ LoadConfigDone
    /\ frame.env = [RIOT_API_KEY |-> Nil, PORT |-> Nil, DATABASE_URL |-> Nil]
    /\ frame.file = Nil
    /\ result.val = Ref([RiotAPIKey |-> "", ServerPort |-> "8081", DatabaseURL |-> ""])

\* C24 witness of a set port: PORT was 9000 in the environment and 7000 in the
\* .env file, and the port returned is 9000.
C24_PortWitness ==
    /\ LoadConfigDone
    /\ frame.env.PORT = Ref("9000")
    /\ frame.file # Nil /\ frame.file.v.PORT = Ref("7000")
    /\ result.val.v.ServerPort = "9000"

\* ------------------------------------------------------- what a request holds

\* C25: every request an operation of the instance hands to httpClient.Do,
\* the second and later ones of GetSummonerByRiotID and GetMatchHistory
\* included, is a GET whose X-Riot-Token header holds the apiKey the instance
\* was constructed with.
C25_AuthenticatedGet ==
    \A i \in 1..Len(requests) :
        /\ requests[i].method = "GET"
        /\ requests[i].header = [XRiotToken |-> svc.apiKey]

\* C25 witness: a GetMatchHistory issued three requests, the last one with
\* the key too.
C25_Witness ==
    /\ HistoryDone
    /\ svc.apiKey = "test-api-key"
    /\ Len(requests) = 3
    /\ requests[3].method = "GET"
    /\ requests[3].header.XRiotToken = "test-api-key"

\* --------------------------------------------- where composed operations ask

\* The continental hosts as documented, region by region.
DocumentedContinentalHost(region) ==
    CASE region \in {"na", "br", "lan", "las"} -> AmericasHost
      [] region \in {"euw", "eune", "tr", "ru"} -> EuropeHost
      [] region \in {"kr", "jp"} -> AsiaHost
      [] region = "oce" -> SeaHost
      [] OTHER -> AmericasHost

IsAccountRequest(request) ==
    \E i \in 1..Len(request.url) :
        request.url[i] = "/riot/account/v1/accounts/by-riot-id/"
IsListRequest(request) ==
    \E i \in 1..Len(request.url) : request.url[i] = "/lol/match/v5/matches/by-puuid/"

\* The request goes to the host: its URL is https://host and a path.  An
\* instance with an endpoint override sends to the override in place of the
\* host it resolved.
SentTo(request, host) ==
    IF svc.baseURLOverride = "" THEN SubSeq(request.url, 1, 2) = <<"https://", host>>
    ELSE request.url[1] = svc.baseURLOverride

\* C26: for one region argument, GetSummonerByRiotID sends first the
\* account-by-riot-id request, to the continental host of the region, and then
\* the summoner-by-puuid request, to the platform host of the region;
\* GetMatchHistory sends first the listing request and then the detail
\* requests, every one of them to the continental host of the region.
C26_ComposedRouting ==
    /\ frame.op = "GetSummonerByRiotID" =>
          /\ Len(requests) <= 2
          /\ Len(requests) >= 1 =>
                /\ IsAccountRequest(requests[1])
                /\ SentTo(requests[1], DocumentedContinentalHost(frame.region))
          /\ Len(requests) = 2 =>
                /\ IsSummonerRequest(requests[2])
                /\ SentTo(requests[2], DocumentedPlatformHost(frame.region))
    /\ frame.op = "GetMatchHistory" =>
          \A i \in 1..Len(requests) :
              /\ SentTo(requests[i], DocumentedContinentalHost(frame.region))
              /\ IF i = 1 THEN IsListRequest(requests[i])
                 ELSE IsDetailRequest(requests[i]) /\ ~IsListRequest(requests[i])

\* C26 witness: a GetSummonerByRiotID for kr asked the asia host, then the kr
\* host.
C26_Witness ==
    /\ RiotIDDone
    /\ frame.region = "kr"
    /\ Len(requests) = 2
    /\ SubSeq(requests[1].url, 1, 2) = <<"https://", "asia.api.riotgames.com">>
    /\ SubSeq(requests[2].url, 1, 2) = <<"https://", "kr.api.riotgames.com">>

\* C26 witness of the match history: a GetMatchHistory for kr asked the asia
\* host for the listing and for two matches.
C26_HistoryWitness ==
    /\ HistoryDone
    /\ frame.region = "kr"
    /\ Len(requests) = 3
    /\ \A i \in 1..3 :
          SubSeq(requests[i].url, 1, 2) = <<"https://", "asia.api.riotgames.com">>

\* ------------------------------------------------------ the key of step two

\* GetSummonerByRiotID returned, its account lookup having succeeded.
LookedUp == RiotIDDone /\ steps[1].ok

\* The puuid the account response carries, "" when it carries none.
AccountPUUID ==
    IF Sub(steps[1].doc, "puuid").t = "str" THEN Sub(steps[1].doc, "puuid").s ELSE ""

\* C27 (as claimed): whenever the account lookup succeeds, whatever PUUID its
\* response gives, none included, GetSummonerByRiotID issues the
\* summoner-by-puuid request, keyed by exactly that value.
C27_AlwaysIssued ==
    LookedUp =>
        /\ Len(requests) = 2
        /\ IsSummonerRequest(requests[2])
        /\ RequestedID(requests[2]) = AccountPUUID

\* C27 (amended): whenever the account lookup succeeds, whatever PUUID its
\* response gives, none included, GetSummonerByRiotID makes the
\* summoner-by-puuid call with exactly that value as its key.  The request of
\* that call is issued, keyed by that value, whenever a URL can be made of the
\* value; when none can, the call fails with no request issued.
C27_KeyedByAccountPUUID ==
    LookedUp =>
        /\ Len(steps) = 2
        /\ steps[2].step = "summoner"
        /\ steps[2].key = AccountPUUID
        /\ frame.accountInfo.PUUID = AccountPUUID
        /\ AccountPUUID # BadEscape =>
              /\ Len(requests) = 2
              /\ IsSummonerRequest(requests[2])
              /\ RequestedID(requests[2]) = AccountPUUID
        /\ AccountPUUID = BadEscape =>
              /\ Len(requests) = 1
              /\ result.val = Nil /\ result.err # NoErr

\* C27 witness: the account response carried no puuid and the summoner
\* request was issued with the empty key.
C27_Witness ==
    /\ LookedUp
    /\ steps[1].doc = EmptyObj
    /\ Len(requests) = 2
    /\ IsSummonerRequest(requests[2])
    /\ RequestedID(requests[2]) = ""

\* C27 witness of a key: the account response carried p1 and the summoner
\* request asked for p1.
C27_KeyWitness ==
    /\ LookedUp
    /\ AccountPUUID = "p1"
    /\ Len(requests) = 2
    /\ RequestedID(requests[2]) = "p1"

\* ------------------------------------------------------- success statuses

\* makeRequest returned, its request having been answered.
Answered == MakeRequestDone /\ requests # <<>> /\ frame.resp.got

\* C28 (as claimed): makeRequest fails with an upstream error exactly when
\* the status of the response is outside 200..299; a response with any status
\* in 200..299 is a success, and its body is decoded into the target.
C28_Every2xxSucceeds ==
    Answered =>
        /\ IsUpstreamError(result.err) <=> ~Is2xx(frame.resp.status)
        /\ Is2xx(frame.resp.status) =>
              \E decoded \in {Decode(frame.shape, frame.resp.body.doc)} :
                  /\ result.val = decoded.val
                  /\ result.err = NoErr <=> decoded.err = NoErr

\* What holds of makeRequest in place of C28: 200 is the only status taken
\* as a success; every other status, 201 and 204 included, gives an upstream
\* error and leaves the target as declared.
C28_OnlyStatusOKSucceeds ==
    Answered =>
        /\ IsUpstreamError(result.err) <=> frame.resp.status # StatusOK
        /\ frame.resp.status # StatusOK => result.val = Zero(frame.shape)
        /\ frame.resp.status = StatusOK =>
              \E decoded \in {Decode(frame.shape, frame.resp.body.doc)} :
                  /\ result.val = decoded.val
                  /\ result.err = NoErr <=> decoded.err = NoErr

\* A 201 whose body decodes was answered with an upstream error.
C28_CreatedWitness ==
    /\ Answered
    /\ frame.resp.status = 201
    /\ Decode(frame.shape, frame.resp.body.doc).err = NoErr
    /\ IsUpstreamError(result.err)

\* ------------------------------------------------------ endpoints per instance

\* The path each kind of request starts with.
PathStarts ==
    {"/riot/account/v1/accounts/by-riot-id/", "/lol/summoner/v4/summoners/by-puuid/",
     "/lol/match/v5/matches/by-puuid/", "/lol/match/v5/matches/"}

\* The host a request is for: the platform host of the region for a summoner
\* request, the continental one for every other.
ResolvedHost(region, request) ==
    IF IsSummonerRequest(request) THEN DocumentedPlatformHost(region)
    ELSE DocumentedContinentalHost(region)

\* Every request in flight went where the instance of its caller sends: to
\* the override and the path when the instance has an override, whatever the
\* region, and to https://host and the path when it has none; and none went
\* to the override of another instance.
OwnEndpoint ==
    \A m \in requests :
        /\ IF svc[m.caller].baseURLOverride # ""
           THEN /\ m.request.url[1] = svc[m.caller].baseURLOverride
                /\ m.request.url[2] \in PathStarts
           ELSE /\ m.request.url[1] = "https://"
                /\ m.request.url[2] = ResolvedHost(frame[m.caller].region, m.request)
                /\ m.request.url[3] \in PathStarts
        /\ \A c \in Callers :
              (svc[c].baseURLOverride # ""
                 /\ svc[c].baseURLOverride # svc[m.caller].baseURLOverride) =>
                  \A i \in 1..Len(m.request.url) :
                      m.request.url[i] # svc[c].baseURLOverride

\* C29: the endpoint override belongs to the instance and is set when the
\* instance is constructed.  An instance with a non-empty override sends every
\* request to override + path, whatever the region; an instance without one
\* sends it to https://<resolved host> + path; instances with different
\* overrides used at the same time never send a request to each other's
\* endpoint; and no step of an operation changes the override of any instance.
C29_EndpointPerInstance ==
    /\ []OwnEndpoint
    /\ [][svc' = svc]_vars

\* C29 witness: two instances with different overrides each have a request in
\* flight, for different regions, each at its own endpoint.
C29_Witness ==
    /\ svc["a"].baseURLOverride = "http://stub-a"
    /\ svc["b"].baseURLOverride = "http://stub-b"
    /\ frame["a"].op # "none" /\ frame["b"].op # "none"
    /\ frame["a"].region # frame["b"].region
    /\ \E m \in requests : m.caller = "a" /\ m.request.url[1] = "http://stub-a"
    /\ \E m \in requests : m.caller = "b" /\ m.request.url[1] = "http://stub-b"

\* C29 witness of an instance without an override: it has a request in flight
\* at the host of its region while an instance with an override has one at
\* its override.
C29_HostWitness ==
    /\ svc["a"].baseURLOverride = ""
    /\ svc["b"].baseURLOverride = "http://stub-b"
    /\ \E m \in requests :
          m.caller = "a" /\ m.request.url[2] = "euw1.api.riotgames.com"
    /\ \E m \in requests : m.caller = "b" /\ m.request.url[1] = "http://stub-b"

\* ------------------------------------------------------ a record or an error

\* The operations of RiotService that return a record and an error.
RecordOperations == {"GetSummonerByRiotID", "GetSummonerByPUUID", "GetMatchDetails"}

\* A request to POST /api/v1/matches served over the instance has been answered.
ServedOverInstance ==
    /\ HandlerFinished
    /\ "riotService" \in DOMAIN frame

\* C30: GetSummonerByRiotID, GetSummonerByPUUID and GetMatchDetails return
\* exactly one of a record and an error: never a nil record with a nil error,
\* never a record with an error.  So the matches handler over the instance,
\* when its lookup returned a nil error, reads the PUUID of a Summoner that is
\* not nil, and does not panic.
C30_RecordOrError ==
    /\ (pc = "done" /\ frame.op \in RecordOperations) =>
          ((result.val = Nil) <=> (result.err # NoErr))
    /\ ServedOverInstance =>
          /\ (frame.service.summoner.val = Nil) <=> (frame.service.summoner.err # NoErr)
          /\ ~result.val.panicked

\* C30 witness: the handler over the instance looked a Riot ID up, the lookup
\* returned a Summoner without a PUUID and a nil error, and the handler went
\* on to GetMatchHistory with it.
C30_Witness ==
    /\ ServedOverInstance
    /\ Len(steps) = 2
    /\ frame.service.summoner.err = NoErr
    /\ frame.service.summoner.val # Nil
    /\ frame.service.summoner.val.v.PUUID = ""
    /\ steps[2].puuid = ""

\* C30 witness of the operations themselves: each has returned a record with
\* a nil error, and each a nil record with an error.
C30_OperationWitness ==
    /\ pc = "done"
    /\ frame.op = "GetMatchDetails"
    /\ result.val # Nil
    /\ result.err = NoErr

====
